---- MODULE Spec2Model ----
(***************************************************************************)
(* Session key store of the workflow editor (frontend/lib/workflow-utils.ts *)
(* "Session Key Management") and the React hook that drives it             *)
(* (frontend/hooks/useSessionKey.ts).                                       *)
(*                                                                         *)
(* localStorage item 'erc4337_session_keys' is modelled by `stored`: the   *)
(* item is either missing, or the JSON text of a Record<string,SessionKey>,*)
(* or a text that JSON.parse rejects.  The JSON text of a plain record of  *)
(* strings, numbers and booleans parses back to the same record, so the    *)
(* text is represented by the record.  `stored` also tells whether         *)
(* localStorage.setItem succeeds or throws (quota exceeded).               *)
(* SessionKey.publicKey and SessionKey.permissions are opaque payload that *)
(* no operation of the store reads; they are left out of the records.      *)
(***************************************************************************)
EXTENDS Integers, Sequences, FiniteSets, TLC

VARIABLES
    now,      \* Date.now(), in milliseconds
    stored,   \* localStorage item SESSION_KEY_STORAGE_KEY
    hook,     \* useState cells of useSessionKey
    pending,  \* authorizeSessionKey suspended at `await toMetaMaskSmartAccount`
    lastOp,   \* the last call made and what it returned
    workflow, \* nodes and edges of the workflow on the canvas
    outcome,  \* what the last function applied to the workflow returned
    wallet,   \* useAccount().address, useWalletClient().data, usePublicClient()
    accounts, \* per erc4337 node: localStorage item smartAccount_<id> and the
              \* useState cell of useSmartAccount
    smartAccounts, \* useState cell smartAccounts of the editor
    dialog,   \* useState cells of ManualPermissionRequestButton
    manager,  \* props and useState cells of WorkflowPermissionManager
    traversal, \* the running call of analyzeTransferContext or
               \* generateExecutionPlan: its position, call stack and locals
    permissions \* per mounted PermissionProvider its useState cell
                \* permissions, and the localStorage item erc4337_permissions

\* the session key store and its hook
sessionVars == <<now, stored, hook, pending, lastOp>>
\* the workflow editor
permissionVars == <<wallet, accounts, smartAccounts, dialog, manager>>
editorVars ==
    <<workflow, outcome, wallet, accounts, smartAccounts, dialog, manager,
      traversal, permissions>>

vars ==
    <<now, stored, hook, pending, lastOp, workflow, outcome, wallet, accounts,
      smartAccounts, dialog, manager, traversal, permissions>>

----------------------------------------------------------------------------
(* Bounds of the model *)

\* calls of createSmartAccount of one node suspended at a time
MaxCalls == 2

\* clock advances of one whole SESSION_DURATION
MaxDurations == 1
\* clock advances of one millisecond
MaxMillis == 1
\* nested calls of traverseParents or traverseChildren the model follows
MaxDepth == 8

(* Program constants *)

SESSION_DURATION == 604800000

\* node ids of the editor ('agent-default', `${type}-${n}`) contain dashes
NodeIds == {"erc4337", "erc4337-1"}
\* smart account addresses are 0x-prefixed hex strings
Accounts == {"0xA"}
\* generatePrivateKey() draws a fresh key
PrivateKeys == {"0xk1"}

\* privateKeyToAccount(privateKey).address
addressOf(privateKey) ==
    CASE privateKey = "0xk1" -> "0xS1"
      [] privateKey = "0xk2" -> "0xS2"
      [] OTHER -> ""

----------------------------------------------------------------------------
(* Values *)

\* null / a SessionKey
Null == <<>>
Some(r) == <<r>>

\* the empty Record<string, SessionKey>
EmptyKeys == [k \in {} |-> Null]

\* localStorage.getItem returned null
Missing ==
    [present |-> FALSE, keys |-> EmptyKeys, valid |-> TRUE, writable |-> TRUE]
\* JSON.stringify(keys), as localStorage.setItem has written it
Json(keys) ==
    [present |-> TRUE, keys |-> keys, valid |-> TRUE, writable |-> TRUE]

\* JSON.parse(stored) throws a SyntaxError
ParseThrows(st) == st.present /\ ~st.valid

\* localStorage.setItem throws
SetItemThrows(st) == ~st.writable

\* a composite key of the node id alone
compositeKey_nodeIdOnly(nodeId, smartAccountAddress) == nodeId

\* `${nodeId}-${smartAccountAddress}`
compositeKey(nodeId, smartAccountAddress) == nodeId \o "-" \o smartAccountAddress

\* keys[k] is not undefined
Has(keys, k) == k \in DOMAIN keys

\* keys[k] = r
Put(keys, k, r) == [x \in DOMAIN keys \cup {k} |-> IF x = k THEN r ELSE keys[x]]

\* delete keys[k]
Delete(keys, k) == [x \in DOMAIN keys \ {k} |-> keys[x]]

\* Date.now() > sessionKey.expiresAt
Expired(sessionKey, t) == t > sessionKey.expiresAt

----------------------------------------------------------------------------
(* frontend/lib/workflow-utils.ts: the store, as functions of the item read *)
(* (st), the arguments and the clock reading (t).  Each yields the item as  *)
(* the call leaves it and, where the function returns a value, the result.  *)

\* the object literal of generateSessionKey: Date.now() is evaluated once for
\* createdAt (t1) and once more for expiresAt (t2)
generateSessionKey(nodeId, smartAccountAddress, privateKey, t1, t2) ==
    [privateKey          |-> privateKey,
     address             |-> addressOf(privateKey),
     nodeId              |-> nodeId,
     smartAccountAddress |-> smartAccountAddress,
     createdAt           |-> t1,
     expiresAt           |-> t2 + SESSION_DURATION,
     authorized          |-> FALSE]

\* storeSessionKey with a catch block that logs the error and returns
storeSessionKey_swallows(st, sessionKey) ==
    LET keys == IF st.present THEN st.keys ELSE EmptyKeys
    IN  IF ParseThrows(st) \/ SetItemThrows(st)
        THEN [stored |-> st, threw |-> FALSE]
        ELSE [stored |-> Json(Put(keys,
                                  compositeKey(sessionKey.nodeId,
                                               sessionKey.smartAccountAddress),
                                  sessionKey)),
              threw |-> FALSE]

\* threw: the catch block has thrown 'Failed to store session key in
\* localStorage'
storeSessionKey(st, sessionKey) ==
    LET keys == IF st.present THEN st.keys ELSE EmptyKeys
    IN  IF ParseThrows(st) \/ SetItemThrows(st)
        THEN [stored |-> st, threw |-> TRUE]
        ELSE [stored |-> Json(Put(keys,
                                  compositeKey(sessionKey.nodeId,
                                               sessionKey.smartAccountAddress),
                                  sessionKey)),
              threw |-> FALSE]

\* deleteSessionKey with `delete keys[nodeId]`
deleteSessionKey_byNodeId(st, nodeId, smartAccountAddress) ==
    IF ~st.present
    THEN st
    ELSE IF ParseThrows(st) \/ SetItemThrows(st)
    THEN st
    ELSE Json(Delete(st.keys, nodeId))

\* the catch block logs the error and the function returns
deleteSessionKey(st, nodeId, smartAccountAddress) ==
    IF ~st.present
    THEN st
    ELSE IF ParseThrows(st) \/ SetItemThrows(st)
    THEN st
    ELSE Json(Delete(st.keys, compositeKey(nodeId, smartAccountAddress)))

\* getSessionKey without its `if (!sessionKey.authorized)`
getSessionKey_noAuthorizedCheck(st, nodeId, smartAccountAddress, t) ==
    LET k == compositeKey(nodeId, smartAccountAddress)
    IN  IF ~st.present
        THEN [stored |-> st, result |-> Null]
        ELSE IF ParseThrows(st)
        THEN [stored |-> st, result |-> Null]
        ELSE IF ~Has(st.keys, k)
        THEN [stored |-> st, result |-> Null]
        ELSE IF Expired(st.keys[k], t)
        THEN [stored |-> deleteSessionKey(st, nodeId, smartAccountAddress),
              result |-> Null]
        ELSE [stored |-> st, result |-> Some(st.keys[k])]

\* getSessionKey without the deleteSessionKey call of its expiry branch
getSessionKey_noDelete(st, nodeId, smartAccountAddress, t) ==
    LET k == compositeKey(nodeId, smartAccountAddress)
    IN  IF ~st.present
        THEN [stored |-> st, result |-> Null]
        ELSE IF ParseThrows(st)
        THEN [stored |-> st, result |-> Null]
        ELSE IF ~Has(st.keys, k)
        THEN [stored |-> st, result |-> Null]
        ELSE IF Expired(st.keys[k], t)
        THEN [stored |-> st, result |-> Null]
        ELSE IF ~st.keys[k].authorized
        THEN [stored |-> st, result |-> Null]
        ELSE [stored |-> st, result |-> Some(st.keys[k])]

getSessionKey(st, nodeId, smartAccountAddress, t) ==
    LET k == compositeKey(nodeId, smartAccountAddress)
    IN  IF ~st.present
        THEN [stored |-> st, result |-> Null]
        ELSE IF ParseThrows(st)
        THEN [stored |-> st, result |-> Null]
        ELSE IF ~Has(st.keys, k)
        THEN [stored |-> st, result |-> Null]
        ELSE IF Expired(st.keys[k], t)
        THEN [stored |-> deleteSessionKey(st, nodeId, smartAccountAddress),
              result |-> Null]
        ELSE IF ~st.keys[k].authorized
        THEN [stored |-> st, result |-> Null]
        ELSE [stored |-> st, result |-> Some(st.keys[k])]

\* markSessionKeyAuthorized with `if (keys[compositeKey])` around the
\* assignment only
markSessionKeyAuthorized_noMissingCheck(st, nodeId, smartAccountAddress) ==
    LET k == compositeKey(nodeId, smartAccountAddress)
    IN  IF ~st.present
        THEN [stored |-> st, result |-> FALSE]
        ELSE IF ParseThrows(st)
        THEN [stored |-> st, result |-> FALSE]
        ELSE IF ~Has(st.keys, k)
        THEN [stored |-> st, result |-> TRUE]
        ELSE IF SetItemThrows(st)
        THEN [stored |-> st, result |-> FALSE]
        ELSE [stored |-> Json([st.keys EXCEPT ![k].authorized = TRUE]),
              result |-> TRUE]

markSessionKeyAuthorized(st, nodeId, smartAccountAddress) ==
    LET k == compositeKey(nodeId, smartAccountAddress)
    IN  IF ~st.present
        THEN [stored |-> st, result |-> FALSE]
        ELSE IF ParseThrows(st)
        THEN [stored |-> st, result |-> FALSE]
        ELSE IF ~Has(st.keys, k)
        THEN [stored |-> st, result |-> FALSE]
        ELSE IF SetItemThrows(st)
        THEN [stored |-> st, result |-> FALSE]
        ELSE [stored |-> Json([st.keys EXCEPT ![k].authorized = TRUE]),
              result |-> TRUE]

hasValidSessionKey(st, nodeId, smartAccountAddress, t) ==
    LET got == getSessionKey(st, nodeId, smartAccountAddress, t)
    IN  [stored |-> got.stored,
         result |-> got.result # Null /\ got.result[1].authorized]

\* Object.values(keys); the order of the list is not modelled
getAllSessionKeys(st) ==
    IF ~st.present \/ ParseThrows(st)
    THEN {}
    ELSE {st.keys[k] : k \in DOMAIN st.keys}

\* localStorage.removeItem
clearAllSessionKeys(st) == [Missing EXCEPT !.writable = st.writable]

\* revokeExpiredSessionKeys with `now >= sessionKey.expiresAt`
revokeExpiredSessionKeys_inclusive(st, t) ==
    IF ~st.present \/ ParseThrows(st)
    THEN [stored |-> st, result |-> 0]
    ELSE LET expired == {k \in DOMAIN st.keys : t >= st.keys[k].expiresAt}
             revokedCount == Cardinality(expired)
             keys == [k \in DOMAIN st.keys \ expired |-> st.keys[k]]
         IN  IF revokedCount > 0 /\ SetItemThrows(st)
             THEN [stored |-> st, result |-> 0]
             ELSE [stored |-> IF revokedCount > 0 THEN Json(keys) ELSE st,
                   result |-> revokedCount]

revokeExpiredSessionKeys(st, t) ==
    IF ~st.present \/ ParseThrows(st)
    THEN [stored |-> st, result |-> 0]
    ELSE LET expired == {k \in DOMAIN st.keys : t > st.keys[k].expiresAt}
             revokedCount == Cardinality(expired)
             keys == [k \in DOMAIN st.keys \ expired |-> st.keys[k]]
         IN  IF revokedCount > 0 /\ SetItemThrows(st)
             THEN [stored |-> st, result |-> 0]
             ELSE [stored |-> IF revokedCount > 0 THEN Json(keys) ELSE st,
                   result |-> revokedCount]

\* the JSON text of the key, or null
exportSessionKey(st, nodeId, smartAccountAddress, t) ==
    getSessionKey(st, nodeId, smartAccountAddress, t)

\* sessionKeyJson is the parsed text; a missing or empty string field is ""
importSessionKey(st, sessionKeyJson) ==
    IF \/ sessionKeyJson.privateKey = ""
       \/ sessionKeyJson.address = ""
       \/ sessionKeyJson.nodeId = ""
       \/ sessionKeyJson.smartAccountAddress = ""
    THEN [stored |-> st, result |-> FALSE]
    ELSE LET put == storeSessionKey(st, sessionKeyJson)
         IN  [stored |-> put.stored, result |-> ~put.threw]

----------------------------------------------------------------------------
(* lib/workflow-executor.ts: the workflow graph and its validation.  A node *)
(* is its id, its type and the fields of its data that the functions read;  *)
(* an edge is its source and target.                                        *)

\* node.data of a node whose configuration panel was never filled in
\* (a string that is not set is "", decimals that are not set are 0)
NoData ==
    [smartAccountAddress |-> "", startTime |-> "", endTime |-> "",
     amountLimit |-> "", amount |-> "", tokenAddress |-> "",
     decimals |-> 0, symbol |-> "", to |-> ""]

Node(id, type) == [id |-> id, type |-> type, data |-> NoData]

Edge(source, target) == [source |-> source, target |-> target]

\* nodes.find(test): the first node that passes the test, or undefined
find(nodes, test(_)) ==
    LET found == SelectSeq(nodes, test)
    IN  IF found = <<>> THEN Null ELSE Some(found[1])

\* edges.filter(edge => edge.target === nodeId).map(edge => edge.source), for
\* the array of edges in the order they were connected
findParentNodes(nodeId, edges) ==
    LET into == SelectSeq(edges, LAMBDA edge : edge.target = nodeId)
    IN  [i \in 1..Len(into) |-> into[i].source]

\* edges.filter(edge => edge.source === nodeId).map(edge => edge.target)
findChildNodes(nodeId, edges) ==
    LET from == SelectSeq(edges, LAMBDA edge : edge.source = nodeId)
    IN  [i \in 1..Len(from) |-> from[i].target]

\* a result { valid: false, reason, details: { expected, found } }; fields the
\* result does not have are "" and 0
Invalid(reason, expected, found) ==
    [valid |-> FALSE, reason |-> reason, expected |-> expected,
     found |-> found, order |-> "", pattern |-> "", tokenCount |-> 0]

\* a result { valid: true, details: { order, pattern, tokenCount } }
Valid(order, pattern, tokenCount) ==
    [valid |-> TRUE, reason |-> "", expected |-> "", found |-> "",
     order |-> order, pattern |-> pattern, tokenCount |-> tokenCount]

\* n => n.type === 'erc4337' with 'agent-default' let through
isAccountNode_anyErc4337(n) == n.type = "erc4337"

\* n => n.type === 'erc4337' && n.id !== 'agent-default'
isAccountNode(n) == n.type = "erc4337" /\ n.id # "agent-default"

\* the edge test with source and target the wrong way round as well
hasEdge_eitherDirection(edges, source, target) ==
    \E e \in edges : \/ e.source = source /\ e.target = target
                     \/ e.source = target /\ e.target = source

\* edges.find(e => e.source === source && e.target === target) is defined
hasEdge(edges, source, target) ==
    \E e \in edges : e.source = source /\ e.target = target

\* the filter with the edge taken in either direction
tokensConnectedTo_eitherDirection(tokenNodes, edges, nodeId) ==
    SelectSeq(tokenNodes,
              LAMBDA token :
                  \E e \in edges : \/ e.source = nodeId /\ e.target = token.id
                                   \/ e.source = token.id /\ e.target = nodeId)

\* the filter that keeps every token node that is the target of some edge
tokensConnectedTo_anySource(tokenNodes, edges, nodeId) ==
    SelectSeq(tokenNodes, LAMBDA token : \E e \in edges : e.target = token.id)

\* tokenNodes.filter(token =>
\*     edges.some(e => e.source === nodeId && e.target === token.id))
tokensConnectedTo(tokenNodes, edges, nodeId) ==
    SelectSeq(tokenNodes,
              LAMBDA token :
                  \E e \in edges : e.source = nodeId /\ e.target = token.id)

\* the arrow of the template literals is written ->
validateWorkflowConnectionOrder(nodes, edges) ==
    LET erc4337Node == find(nodes, isAccountNode)
        transferNode == find(nodes, LAMBDA n : n.type = "transfer")
        swapNode == find(nodes, LAMBDA n : n.type = "swap")
        tokenNodes ==
            SelectSeq(nodes, LAMBDA n : n.type \in {"erc20-tokens", "native-token"})
    IN  IF erc4337Node = Null
        THEN Invalid("ERC-4337 Account node is required", "", "")
        ELSE IF transferNode = Null
        THEN Invalid("Transfer node is required", "", "")
        ELSE IF Len(tokenNodes) = 0
        THEN Invalid("At least one Token node (Native Token or ERC-20 Token) is required",
                     "", "")
        ELSE IF ~hasEdge(edges, erc4337Node[1].id, transferNode[1].id)
        THEN Invalid("ERC-4337 Account must be connected TO Transfer node",
                     erc4337Node[1].id \o " -> " \o transferNode[1].id,
                     "Connection missing")
        ELSE IF swapNode # Null
        THEN IF ~hasEdge(edges, transferNode[1].id, swapNode[1].id)
             THEN Invalid("Transfer node must be connected TO Swap node",
                          transferNode[1].id \o " -> " \o swapNode[1].id,
                          "Connection missing")
             ELSE LET tokensConnectedToSwap ==
                          tokensConnectedTo(tokenNodes, edges, swapNode[1].id)
                  IN  IF Len(tokensConnectedToSwap) = 0
                      THEN Invalid("Swap node must be connected TO at least one Token node",
                                   swapNode[1].id \o " -> [Token nodes]",
                                   "No token connections")
                      ELSE Valid(erc4337Node[1].id \o " -> " \o transferNode[1].id
                                    \o " -> " \o swapNode[1].id \o " -> ["
                                    \o ToString(Len(tokensConnectedToSwap))
                                    \o " token(s)]",
                                 "with-swap", Len(tokensConnectedToSwap))
        ELSE LET tokensConnectedToTransfer ==
                     tokensConnectedTo(tokenNodes, edges, transferNode[1].id)
             IN  IF Len(tokensConnectedToTransfer) = 0
                 THEN Invalid("Transfer node must be connected TO at least one Token node",
                              transferNode[1].id \o " -> [Token nodes]",
                              "No token connections")
                 ELSE Valid(erc4337Node[1].id \o " -> " \o transferNode[1].id
                               \o " -> [" \o ToString(Len(tokensConnectedToTransfer))
                               \o " token(s)]",
                            "direct", Len(tokensConnectedToTransfer))

\* new Date(text).getTime() of the date texts of the model, in milliseconds
getTime(text) ==
    CASE text = "1970-01-01T00:01:00Z" -> 60000
      [] text = "1970-01-01T00:02:00Z" -> 120000
      [] text = "1970-01-02T00:01:00Z" -> 86460000

\* the walk of traverseParents (up) or traverseChildren from a node: the set
\* of visited ids and the chain of the nodes pushed so far
RECURSIVE traverse(_, _, _, _, _)
RECURSIVE traverseEach(_, _, _, _, _)
traverse(nodeId, nodes, edges, up, walk) ==
    IF nodeId \in walk.visited
    THEN walk
    ELSE traverseEach(IF up THEN findParentNodes(nodeId, edges)
                            ELSE findChildNodes(nodeId, edges),
                      nodes, edges, up,
                      [walk EXCEPT !.visited = @ \cup {nodeId}])

\* for (const id of ids) { node = nodes.find(...); if (node) { push; traverse } }
traverseEach(ids, nodes, edges, up, walk) ==
    IF ids = <<>>
    THEN walk
    ELSE LET node == find(nodes, LAMBDA n : n.id = Head(ids))
         IN  traverseEach(Tail(ids), nodes, edges, up,
                          IF node = Null
                          THEN walk
                          ELSE traverse(Head(ids), nodes, edges, up,
                                        [walk EXCEPT !.chain = Append(@, node[1])]))

traverseParents(nodeId, nodes, edges) ==
    traverse(nodeId, nodes, edges, TRUE, [visited |-> {}, chain |-> <<>>]).chain

traverseChildren(nodeId, nodes, edges) ==
    traverse(nodeId, nodes, edges, FALSE, [visited |-> {}, chain |-> <<>>]).chain

\* the loop without the check of tokenNodeIds
RECURSIVE collectTokens_again(_, _, _)
collectTokens_again(childIds, nodes, tokens) ==
    IF childIds = <<>>
    THEN tokens
    ELSE LET childNode == find(nodes, LAMBDA n : n.id = Head(childIds))
             pushed ==
                IF childNode = Null
                THEN tokens
                ELSE IF childNode[1].type = "erc20-tokens"
                THEN [tokens EXCEPT !.tokenNodes = Append(@, childNode[1]),
                                    !.tokenNodeIds = @ \cup {childNode[1].id}]
                ELSE IF childNode[1].type = "native-token"
                THEN [tokens EXCEPT !.nativeTokenNodes = Append(@, childNode[1]),
                                    !.tokenNodeIds = @ \cup {childNode[1].id}]
                ELSE tokens
         IN  collectTokens_again(Tail(childIds), nodes, pushed)

\* the loop that pushes the token nodes among the children childIds that are
\* not yet in tokenNodeIds; tokens: [tokenNodeIds, tokenNodes, nativeTokenNodes]
RECURSIVE collectTokens(_, _, _)
collectTokens(childIds, nodes, tokens) ==
    IF childIds = <<>>
    THEN tokens
    ELSE LET childNode == find(nodes, LAMBDA n : n.id = Head(childIds))
             pushed ==
                IF childNode = Null \/ childNode[1].id \in tokens.tokenNodeIds
                THEN tokens
                ELSE IF childNode[1].type = "erc20-tokens"
                THEN [tokens EXCEPT !.tokenNodes = Append(@, childNode[1]),
                                    !.tokenNodeIds = @ \cup {childNode[1].id}]
                ELSE IF childNode[1].type = "native-token"
                THEN [tokens EXCEPT !.nativeTokenNodes = Append(@, childNode[1]),
                                    !.tokenNodeIds = @ \cup {childNode[1].id}]
                ELSE tokens
         IN  collectTokens(Tail(childIds), nodes, pushed)

\* periodDuration without the division that turns milliseconds into seconds
periodDurationOf_millis(data) ==
    IF data.startTime # "" /\ data.endTime # ""
    THEN getTime(data.endTime) - getTime(data.startTime)
    ELSE 86400

\* periodDuration: start && end ? (getTime(end) - getTime(start)) / 1000 : 86400
\* (the date texts of the model are whole seconds)
periodDurationOf(data) ==
    IF data.startTime # "" /\ data.endTime # ""
    THEN LET millis == getTime(data.endTime) - getTime(data.startTime)
         IN  IF millis >= 0 THEN millis \div 1000 ELSE -((-millis) \div 1000)
    ELSE 86400

\* the permissionParams with the decimals as they are in the node
PermissionParams_noDefault(data, isNative) ==
    [startTime |-> data.startTime, endTime |-> data.endTime,
     amountLimit |-> data.amountLimit,
     tokenAddress |-> IF isNative THEN "" ELSE data.tokenAddress,
     periodAmount |-> data.amount,
     decimals |-> data.decimals,
     symbol |-> IF isNative THEN "ETH" ELSE data.symbol,
     periodDuration |-> periodDurationOf(data)]

\* the permissionParams of a token node or native token node
PermissionParams(data, isNative) ==
    [startTime |-> data.startTime, endTime |-> data.endTime,
     amountLimit |-> data.amountLimit,
     tokenAddress |-> IF isNative THEN "" ELSE data.tokenAddress,
     periodAmount |-> data.amount,
     decimals |-> IF isNative \/ data.decimals = 0 THEN 18 ELSE data.decimals,
     symbol |-> IF isNative THEN "ETH" ELSE data.symbol,
     periodDuration |-> periodDurationOf(data)]

\* the first node of an array, or undefined
first(array) == IF array = <<>> THEN Null ELSE Some(array[1])

\* { operationType: 'unknown' }: an undefined node or permissionParams is Null
UnknownContext ==
    [smartAccountNode |-> Null, tokenNode |-> Null, nativeTokenNode |-> Null,
     allTokenNodes |-> <<>>, allNativeTokenNodes |-> <<>>,
     transferNode |-> Null, operationType |-> "unknown",
     smartAccountAddress |-> "", permissionParams |-> Null]

\* the operation type with the test for a native token node made first
operationTypeOf_nativeFirst(smartAccountNode, tokenNodes, nativeTokenNodes) ==
    IF smartAccountNode # Null /\ nativeTokenNodes # <<>>
    THEN "eth-transfer"
    ELSE IF smartAccountNode # Null /\ tokenNodes # <<>>
    THEN "erc20-transfer"
    ELSE IF smartAccountNode # Null THEN "eth-transfer"
    ELSE "unknown"

\* "Determine operation type": tokenNode is tokenNodes[0], nativeTokenNode is
\* nativeTokenNodes[0]
operationTypeOf(smartAccountNode, tokenNodes, nativeTokenNodes) ==
    IF smartAccountNode # Null /\ tokenNodes # <<>>
    THEN "erc20-transfer"
    ELSE IF smartAccountNode # Null /\ nativeTokenNodes # <<>>
    THEN "eth-transfer"
    ELSE IF smartAccountNode # Null THEN "eth-transfer"
    ELSE "unknown"

\* the ExecutionContext returned for the nodes found
ExecutionContext(transferNode, smartAccountNode, tokenNodes, nativeTokenNodes) ==
    [smartAccountNode |-> smartAccountNode,
     tokenNode |-> first(tokenNodes),
     nativeTokenNode |-> first(nativeTokenNodes),
     allTokenNodes |-> tokenNodes,
     allNativeTokenNodes |-> nativeTokenNodes,
     transferNode |-> transferNode,
     operationType |->
        operationTypeOf(smartAccountNode, tokenNodes, nativeTokenNodes),
     smartAccountAddress |->
        IF smartAccountNode = Null
        THEN "" ELSE smartAccountNode[1].data.smartAccountAddress,
     permissionParams |->
        IF tokenNodes # <<>>
        THEN Some(PermissionParams(tokenNodes[1].data, FALSE))
        ELSE IF nativeTokenNodes # <<>>
        THEN Some(PermissionParams(nativeTokenNodes[1].data, TRUE))
        ELSE Null]

\* the token nodes of the Swap node collected before those of the Transfer node
tokensOfTransfer_swapFirst(transferNodeId, nodes, edges, swapNode) ==
    IF swapNode = Null
    THEN collectTokens(findChildNodes(transferNodeId, edges), nodes,
                       [tokenNodeIds |-> {}, tokenNodes |-> <<>>,
                        nativeTokenNodes |-> <<>>])
    ELSE collectTokens(
             findChildNodes(transferNodeId, edges), nodes,
             collectTokens(findChildNodes(swapNode[1].id, edges), nodes,
                           [tokenNodeIds |-> {}, tokenNodes |-> <<>>,
                            nativeTokenNodes |-> <<>>]))

\* the token nodes directly connected to the transfer node and no others
tokensOfTransfer_directOnly(transferNodeId, nodes, edges, swapNode) ==
    collectTokens(findChildNodes(transferNodeId, edges), nodes,
                  [tokenNodeIds |-> {}, tokenNodes |-> <<>>,
                   nativeTokenNodes |-> <<>>])

\* the token nodes directly connected to the transfer node, then, if a swap
\* node exists, those connected to the swap node
tokensOfTransfer(transferNodeId, nodes, edges, swapNode) ==
    IF swapNode = Null
    THEN collectTokens(findChildNodes(transferNodeId, edges), nodes,
                       [tokenNodeIds |-> {}, tokenNodes |-> <<>>,
                        nativeTokenNodes |-> <<>>])
    ELSE collectTokens(
             findChildNodes(swapNode[1].id, edges), nodes,
             collectTokens(findChildNodes(transferNodeId, edges), nodes,
                           [tokenNodeIds |-> {}, tokenNodes |-> <<>>,
                            nativeTokenNodes |-> <<>>]))

contextOfTokens(transferNode, smartAccountNode, tokens) ==
    ExecutionContext(transferNode, smartAccountNode, tokens.tokenNodes,
                     tokens.nativeTokenNodes)

analyzeTransferContext(transferNodeId, nodes, edges) ==
    IF find(nodes, LAMBDA n : n.id = transferNodeId) = Null
    THEN UnknownContext
    ELSE contextOfTokens(
             find(nodes, LAMBDA n : n.id = transferNodeId),
             find(traverseParents(transferNodeId, nodes, edges),
                  LAMBDA n : n.type = "erc4337"),
             tokensOfTransfer(
                 transferNodeId, nodes, edges,
                 find(traverseChildren(transferNodeId, nodes, edges),
                      LAMBDA n : n.type = "swap")))

\* a step of the execution plan; the fields an eth_transfer step does not have
\* are ""
ExecutionStep(step, operation, context, transferNode) ==
    [step |-> step,
     operation |-> operation,
     smart_account |-> context.smartAccountAddress,
     token_address |->
        IF operation = "erc20_transfer"
        THEN context.tokenNode[1].data.tokenAddress ELSE "",
     token_symbol |->
        IF operation = "erc20_transfer"
        THEN context.tokenNode[1].data.symbol ELSE "",
     recipient |-> transferNode.data.to,
     amount |-> transferNode.data.amount]

\* the callback with the new step put before the others
pushStep_unshift(executionSteps, transferNode, index, context) ==
    IF /\ context.operationType = "erc20-transfer"
       /\ context.smartAccountNode # Null
       /\ context.tokenNode # Null
    THEN <<ExecutionStep(index + 1, "erc20_transfer", context, transferNode)>>
            \o executionSteps
    ELSE IF context.operationType = "eth-transfer" /\ context.smartAccountNode # Null
    THEN <<ExecutionStep(index + 1, "eth_transfer", context, transferNode)>>
            \o executionSteps
    ELSE executionSteps

\* the callback of transferNodes.forEach: the steps after transferNode, the
\* index-th (from 0) of the transfer nodes, with its context (no context has
\* operationType 'nft-transfer')
pushStep(executionSteps, transferNode, index, context) ==
    IF /\ context.operationType = "erc20-transfer"
       /\ context.smartAccountNode # Null
       /\ context.tokenNode # Null
    THEN Append(executionSteps,
                ExecutionStep(index + 1, "erc20_transfer", context, transferNode))
    ELSE IF context.operationType = "eth-transfer" /\ context.smartAccountNode # Null
    THEN Append(executionSteps,
                ExecutionStep(index + 1, "eth_transfer", context, transferNode))
    ELSE executionSteps

\* transferNodes.forEach(...) from the index-th transfer node on
RECURSIVE forEachTransfer(_, _, _, _, _)
forEachTransfer(transferNodes, index, nodes, edges, executionSteps) ==
    IF index >= Len(transferNodes)
    THEN executionSteps
    ELSE forEachTransfer(
             transferNodes, index + 1, nodes, edges,
             pushStep(executionSteps, transferNodes[index + 1], index,
                      analyzeTransferContext(transferNodes[index + 1].id,
                                             nodes, edges)))

planOf(executionSteps) ==
    [has_executable_steps |-> Len(executionSteps) > 0,
     total_steps |-> Len(executionSteps),
     execution_steps |-> executionSteps]

generateExecutionPlan(nodes, edges) ==
    planOf(forEachTransfer(SelectSeq(nodes, LAMBDA n : n.type = "transfer"),
                           0, nodes, edges, <<>>))

----------------------------------------------------------------------------
(* The calls, as steps of the system *)

\* a call and whether it left the stored item (st) changed; what it returned
\* is in the field of its type: key (SessionKey | null, or the JSON text of
\* one), ok (boolean), count (number), all (SessionKey[]); threw: the call
\* ended by throwing to its caller
Call(op, nodeId, smartAccountAddress, st) ==
    [op |-> op, nodeId |-> nodeId, account |-> smartAccountAddress,
     changed |-> st # stored, key |-> Null, ok |-> FALSE, count |-> 0,
     all |-> {}, threw |-> FALSE]

ReturnsKey(call, key) == [call EXCEPT !.key = key]
ReturnsBool(call, ok) == [call EXCEPT !.ok = ok]
ReturnsCount(call, count) == [call EXCEPT !.count = count]
ReturnsAll(call, all) == [call EXCEPT !.all = all]
Throws(call, threw) == [call EXCEPT !.threw = threw]

\* defaultNodes and defaultEdges of the canvas
DefaultWorkflow ==
    [nodes |-> <<Node("agent-default", "erc4337")>>, edges |-> {}]

\* { ready: false } of checkWorkflowReadiness; smartAccountAddr "" and
\* tokenNodes <<>> are fields the result does not have
NotReady == [ready |-> FALSE, smartAccountAddr |-> "", tokenNodes |-> <<>>]

\* what a function applied to the workflow returned: the validation (of
\* validateWorkflowConnectionOrder), the readiness (of a
\* checkWorkflowReadiness), the node whose useSmartAccount effect ran and
\* whether it started createSmartAccount, the request handed to
\* no call of analyzeTransferContext or generateExecutionPlan is running
NoTraversal ==
    [phase |-> "idle", planning |-> FALSE, edges |-> <<>>, pending |-> <<>>,
     index |-> 0, stack |-> <<>>, visited |-> {}, chain |-> <<>>,
     parentChain |-> <<>>, expanded |-> <<>>, executionSteps |-> <<>>]

\* the places that mount a PermissionProvider: the permission dialog of the
\* editor and the execute page
Providers == {"dialog", "execute"}

\* the keys permissions are saved and looked up under: the address of a smart
\* account, or TokenPermissionCard's `${smartAccountAddress}-${tokenNode.id}`,
\* as displayed and in lower case
AccountKeys ==
    {"0xSA1", "0xsa1", "0xSA1-erc20-tokens-4", "0xsa1-erc20-tokens-4",
     "0xSA1-native-token-5", "0xsa1-native-token-5"}

\* a PermissionsMap has no property of this name
Absent == "absent"
\* a PermissionsMap has a property of this name whose value is undefined
Undefined == "undefined"

\* useState<PermissionsMap>({})
NoPermissionsMap == [key \in AccountKeys |-> Absent]

\* no PermissionProvider is mounted and localStorage has no item
\* erc4337_permissions
NoPermissions ==
    [providers |->
        [p \in Providers |-> [mounted |-> FALSE, permissions |-> NoPermissionsMap]],
     item |-> Null]

\* requestExecutionPermissions and the message of the error thrown instead,
\* the array of edges given to analyzeTransferContext or generateExecutionPlan
\* and the context or the plan returned
NoOutcome ==
    [op |-> "none", validation |-> Invalid("", "", ""), readiness |-> NotReady,
     nodeId |-> "", started |-> FALSE, request |-> Null, error |-> "",
     edges |-> <<>>, context |-> UnknownContext, plan |-> planOf(<<>>),
     provider |-> "", key |-> "", grant |-> "", found |-> Null,
     granted |-> FALSE]

Outcome(op, validation) ==
    [NoOutcome EXCEPT !.op = op, !.validation = validation]

\* no wallet connected
NoWallet == [userAddress |-> "", walletClient |-> FALSE, publicClient |-> FALSE]

\* useState initial value of useSmartAccount and no localStorage item
\* calls counts the calls of createSmartAccount suspended at their await
NoAccount ==
    [stored |-> "", address |-> "", isCreating |-> FALSE, error |-> "",
     calls |-> 0]

\* the erc4337 nodes of the model
AccountIds == {"agent-default", "erc4337-1"}

\* useState initial values of ManualPermissionRequestButton
DialogInit == [showDialog |-> FALSE, allTokenNodes |-> <<>>, smartAccountAddr |-> ""]

\* useState initial values of WorkflowPermissionManager, not yet given a
\* smartAccountAddress
ManagerInit ==
    [smartAccountAddress |-> "", detectedParams |-> Null, workflowType |-> "",
     error |-> ""]

\* the session-independent state of the editor before a wallet is connected
PermissionInit ==
    /\ wallet = NoWallet
    /\ accounts = [id \in AccountIds |-> NoAccount]
    /\ smartAccounts = [id \in AccountIds |-> ""]
    /\ dialog = DialogInit
    /\ manager = ManagerInit

\* useState initial values of useSessionKey
HookInit ==
    [sessionKey |-> Null, isAuthorized |-> FALSE, isCreating |-> FALSE,
     error |-> Null]

Init ==
    /\ now = 0
    /\ stored = Missing
    /\ hook = HookInit
    /\ pending = Null
    /\ lastOp = Call("init", "", "", Missing)
    /\ workflow = DefaultWorkflow
    /\ outcome = NoOutcome
    /\ traversal = NoTraversal
    /\ permissions = NoPermissions
    /\ PermissionInit

\* the clock may advance by d more milliseconds within the bounds
CanAdvance(d) ==
    \/ d = 0
    \/ d = 1 /\ now % SESSION_DURATION < MaxMillis
    \/ d = SESSION_DURATION /\ now \div SESSION_DURATION < MaxDurations

\* time passes between two calls
Tick ==
    \E d \in {1, SESSION_DURATION} :
        /\ CanAdvance(d)
        /\ now' = now + d
        /\ lastOp' = ReturnsCount(
                         Call("tick", "", "", stored),
                         d)
        /\ UNCHANGED <<stored, hook, pending, editorVars>>

\* generateSessionKey(nodeId, smartAccountAddress): the clock may move on by
\* d between the Date.now() of createdAt and the Date.now() of expiresAt
GenerateSessionKeyFor(nodeId, account) ==
    \E privateKey \in PrivateKeys, d \in {0, 1} :
        LET sessionKey ==
                generateSessionKey(nodeId, account, privateKey, now, now + d)
        IN  /\ CanAdvance(d)
            /\ now' = now + d
            /\ lastOp' = ReturnsKey(
                             Call("generateSessionKey", nodeId, account, stored),
                             Some(sessionKey))
            /\ UNCHANGED <<stored, hook, pending, editorVars>>

GenerateSessionKey ==
    \E nodeId \in NodeIds, account \in Accounts :
        GenerateSessionKeyFor(nodeId, account)

\* storeSessionKey(sessionKey) with the key generateSessionKey just returned
StoreSessionKey ==
    /\ lastOp.op = "generateSessionKey"
    /\ LET sessionKey == lastOp.key[1]
           put == storeSessionKey(stored, sessionKey)
       IN  /\ stored' = put.stored
           /\ lastOp' = Throws(
                            Call("storeSessionKey", sessionKey.nodeId,
                                 sessionKey.smartAccountAddress, stored'),
                            put.threw)
    /\ UNCHANGED <<now, hook, pending, editorVars>>

GetSessionKeyFor(nodeId, account) ==
    LET got == getSessionKey(stored, nodeId, account, now)
    IN  /\ stored' = got.stored
        /\ lastOp' = ReturnsKey(
                         Call("getSessionKey", nodeId, account, stored'),
                         got.result)
        /\ UNCHANGED <<now, hook, pending, editorVars>>

GetSessionKey ==
    \E nodeId \in NodeIds, account \in Accounts :
        GetSessionKeyFor(nodeId, account)

MarkSessionKeyAuthorizedFor(nodeId, account) ==
    LET got == markSessionKeyAuthorized(stored, nodeId, account)
    IN  /\ stored' = got.stored
        /\ lastOp' = ReturnsBool(
                         Call("markSessionKeyAuthorized", nodeId, account, stored'),
                         got.result)
        /\ UNCHANGED <<now, hook, pending, editorVars>>

MarkSessionKeyAuthorized ==
    \E nodeId \in NodeIds, account \in Accounts :
        MarkSessionKeyAuthorizedFor(nodeId, account)

DeleteSessionKeyFor(nodeId, account) ==
    /\ stored' = deleteSessionKey(stored, nodeId, account)
    /\ lastOp' = Call("deleteSessionKey", nodeId, account, stored')
    /\ UNCHANGED <<now, hook, pending, editorVars>>

DeleteSessionKey ==
    \E nodeId \in NodeIds, account \in Accounts :
        DeleteSessionKeyFor(nodeId, account)

HasValidSessionKey ==
    \E nodeId \in NodeIds, account \in Accounts :
        LET got == hasValidSessionKey(stored, nodeId, account, now)
        IN  /\ stored' = got.stored
            /\ lastOp' = ReturnsBool(
                             Call("hasValidSessionKey", nodeId, account, stored'),
                             got.result)
            /\ UNCHANGED <<now, hook, pending, editorVars>>

GetAllSessionKeys ==
    /\ lastOp' = ReturnsAll(
                     Call("getAllSessionKeys", "", "", stored),
                     getAllSessionKeys(stored))
    /\ UNCHANGED <<now, stored, hook, pending, editorVars>>

ClearAllSessionKeys ==
    /\ stored' = clearAllSessionKeys(stored)
    /\ lastOp' = Call("clearAllSessionKeys", "", "", stored')
    /\ UNCHANGED <<now, hook, pending, editorVars>>

RevokeExpiredSessionKeys ==
    LET got == revokeExpiredSessionKeys(stored, now)
    IN  /\ stored' = got.stored
        /\ lastOp' = ReturnsCount(
                         Call("revokeExpiredSessionKeys", "", "", stored'),
                         got.result)
        /\ UNCHANGED <<now, hook, pending, editorVars>>

ExportSessionKey ==
    \E nodeId \in NodeIds, account \in Accounts :
        LET got == exportSessionKey(stored, nodeId, account, now)
        IN  /\ stored' = got.stored
            /\ lastOp' = ReturnsKey(
                             Call("exportSessionKey", nodeId, account, stored'),
                             got.result)
            /\ UNCHANGED <<now, hook, pending, editorVars>>

\* the backups a user may hand to importSessionKey: a key of an earlier
\* session, exported before or after it was authorized, or a text without
\* key material
ImportTexts ==
    [privateKey          : {"", "0xk2"},
     address             : {"0xS2"},
     nodeId              : NodeIds,
     smartAccountAddress : {"0xA"},
     createdAt           : {0},
     expiresAt           : {SESSION_DURATION},
     authorized          : BOOLEAN]

ImportSessionKey ==
    \E sessionKeyJson \in ImportTexts :
        LET got == importSessionKey(stored, sessionKeyJson)
        IN  /\ stored' = got.stored
            /\ lastOp' = ReturnsBool(
                             Call("importSessionKey", sessionKeyJson.nodeId, sessionKeyJson.smartAccountAddress, stored'),
                             got.result)
            /\ UNCHANGED <<now, hook, pending, editorVars>>

----------------------------------------------------------------------------
(* frontend/hooks/useSessionKey.ts *)

\* mount effect: revokeExpiredSessionKeys() with the state cells as created
UseSessionKeyMount ==
    /\ pending = Null
    /\ stored' = revokeExpiredSessionKeys(stored, now).stored
    /\ hook' = HookInit
    /\ lastOp' = Call("useSessionKey", "", "", stored')
    /\ UNCHANGED <<now, pending, editorVars>>

\* createSessionKey(nodeId, smartAccountAddress); it has no await, so it runs
\* to its end in one step; when storeSessionKey throws, the catch block sets
\* error to the message and null is returned
CreateSessionKey ==
    \E nodeId \in NodeIds, account \in Accounts, privateKey \in PrivateKeys,
       d \in {0, 1} :
        LET newSessionKey ==
                generateSessionKey(nodeId, account, privateKey, now, now + d)
            put == storeSessionKey(stored, newSessionKey)
        IN  /\ CanAdvance(d)
            /\ now' = now + d
            /\ stored' = put.stored
            /\ hook' = IF put.threw
                       THEN [hook EXCEPT
                                !.isCreating = FALSE,
                                !.error = Some("Failed to store session key in localStorage")]
                       ELSE [sessionKey |-> Some(newSessionKey),
                             isAuthorized |-> FALSE, isCreating |-> FALSE,
                             error |-> Null]
            /\ lastOp' = ReturnsKey(
                             Call("createSessionKey", nodeId, account, stored'),
                             IF put.threw THEN Null ELSE Some(newSessionKey))
            /\ UNCHANGED <<pending, editorVars>>

\* authorizeSessionKey(nodeId, smartAccountAddress, userEOA) up to its await,
\* or to its end when it throws before it; connected: publicClient and
\* walletClient are set
\* (one call is outstanding at a time)
AuthorizeSessionKey ==
    \E nodeId \in NodeIds, account \in Accounts, connected \in BOOLEAN :
        LET got == getSessionKey(stored, nodeId, account, now)
        IN  /\ pending = Null
            /\ IF ~connected
               THEN /\ hook' = [hook EXCEPT !.isCreating = FALSE,
                                            !.error = Some("Wallet not connected")]
                    /\ lastOp' = ReturnsBool(
                                     Call("authorizeSessionKey", nodeId, account, stored),
                                     FALSE)
                    /\ UNCHANGED <<stored, pending>>
               ELSE IF got.result = Null
               THEN /\ stored' = got.stored
                    /\ hook' = [hook EXCEPT !.isCreating = FALSE,
                                    !.error = Some("Session key not found. Create one first.")]
                    /\ lastOp' = ReturnsBool(
                                     Call("authorizeSessionKey", nodeId, account, stored'),
                                     FALSE)
                    /\ UNCHANGED pending
               ELSE /\ pending' = Some([nodeId |-> nodeId, account |-> account,
                                        sessionKeyToAuthorize |-> got.result[1]])
                    /\ hook' = [hook EXCEPT !.isCreating = TRUE, !.error = Null]
                    /\ lastOp' = Call("authorizeSessionKey.await", nodeId, account, stored)
                    /\ UNCHANGED stored
            /\ UNCHANGED <<now, editorVars>>

\* toMetaMaskSmartAccount resolves (ok) or rejects, and authorizeSessionKey
\* runs to its end; the result of markSessionKeyAuthorized is not read, and a
\* rejection leaves its message in error
AuthorizeSessionKeySettle ==
    \E ok \in BOOLEAN :
        /\ pending # Null
        /\ LET p == pending[1]
           IN  IF ok
               THEN /\ stored' = markSessionKeyAuthorized(stored, p.nodeId,
                                                          p.account).stored
                    /\ hook' = [sessionKey |-> Some(p.sessionKeyToAuthorize),
                                isAuthorized |-> TRUE, isCreating |-> FALSE,
                                error |-> hook.error]
                    /\ lastOp' = ReturnsBool(
                                     Call("authorizeSessionKey", p.nodeId, p.account, stored'),
                                     TRUE)
               ELSE /\ hook' = [hook EXCEPT !.isCreating = FALSE,
                                    !.error = Some("Failed to authorize session key")]
                    /\ lastOp' = ReturnsBool(
                                     Call("authorizeSessionKey", p.nodeId, p.account, stored),
                                     FALSE)
                    /\ UNCHANGED stored
        /\ pending' = Null
        /\ UNCHANGED <<now, editorVars>>

RevokeSessionKey ==
    \E nodeId \in NodeIds, account \in Accounts :
        /\ stored' = deleteSessionKey(stored, nodeId, account)
        /\ hook' = [hook EXCEPT !.sessionKey = Null, !.isAuthorized = FALSE]
        /\ lastOp' = Call("revokeSessionKey", nodeId, account, stored')
        /\ UNCHANGED <<now, pending, editorVars>>

CheckSessionKey ==
    \E nodeId \in NodeIds, account \in Accounts :
        LET got == getSessionKey(stored, nodeId, account, now)
        IN  /\ stored' = got.stored
            /\ hook' = IF got.result # Null
                       THEN [hook EXCEPT !.sessionKey = got.result,
                                         !.isAuthorized = got.result[1].authorized]
                       ELSE hook
            /\ lastOp' = ReturnsKey(
                             Call("checkSessionKey", nodeId, account, stored'),
                             got.result)
            /\ UNCHANGED <<now, pending, editorVars>>

----------------------------------------------------------------------------

\* the exported functions of the store, called in any order
Next ==
    \/ Tick
    \/ GenerateSessionKey
    \/ StoreSessionKey
    \/ GetSessionKey
    \/ MarkSessionKeyAuthorized
    \/ DeleteSessionKey
    \/ HasValidSessionKey
    \/ GetAllSessionKeys
    \/ ClearAllSessionKeys
    \/ RevokeExpiredSessionKeys
    \/ ExportSessionKey
    \/ ImportSessionKey

Spec == Init /\ [][Next]_vars

\* the life of generated keys: no backup is imported, the store is not cleared
NextLifecycle ==
    \/ Tick
    \/ GenerateSessionKey
    \/ StoreSessionKey
    \/ GetSessionKey
    \/ MarkSessionKeyAuthorized
    \/ DeleteSessionKey
    \/ HasValidSessionKey
    \/ GetAllSessionKeys
    \/ RevokeExpiredSessionKeys
    \/ ExportSessionKey

SpecLifecycle == Init /\ [][NextLifecycle]_vars

\* a page that uses the store through useSessionKey, and restores backups
NextHook ==
    \/ Tick
    \/ ImportSessionKey
    \/ UseSessionKeyMount
    \/ CreateSessionKey
    \/ AuthorizeSessionKey
    \/ AuthorizeSessionKeySettle
    \/ RevokeSessionKey
    \/ CheckSessionKey

SpecHook == Init /\ [][NextHook]_vars

\* session keys of two smart accounts that were deployed from one node
PairAccounts == {"0xA", "0xB"}
Pairs == {"erc4337"} \X PairAccounts

GenerateSessionKeyOfPair ==
    \E p \in Pairs : GenerateSessionKeyFor(p[1], p[2])

GetSessionKeyOfPair ==
    \E p \in Pairs : GetSessionKeyFor(p[1], p[2])

MarkSessionKeyAuthorizedOfPair ==
    \E p \in Pairs : MarkSessionKeyAuthorizedFor(p[1], p[2])

DeleteSessionKeyOfPair ==
    \E p \in Pairs : DeleteSessionKeyFor(p[1], p[2])

NextPairs ==
    \/ Tick
    \/ GenerateSessionKeyOfPair
    \/ StoreSessionKey
    \/ GetSessionKeyOfPair
    \/ MarkSessionKeyAuthorizedOfPair
    \/ DeleteSessionKeyOfPair
    \/ RevokeExpiredSessionKeys

SpecPairs == Init /\ [][NextPairs]_vars

----------------------------------------------------------------------------
(* Workflows on the canvas *)

\* the nodes a user has dropped on the canvas beside the default node, in the
\* order of generateNodeId's counter, which is their order in `nodes`
CanvasNodes ==
    <<Node("agent-default", "erc4337"),
      Node("erc4337-1", "erc4337"),
      Node("transfer-2", "transfer"),
      Node("swap-3", "swap"),
      Node("erc20-tokens-4", "erc20-tokens"),
      Node("native-token-5", "native-token"),
      Node("transfer-6", "transfer")>>

\* the connections a user has drawn, some of them the wrong way round
CanvasConnections ==
    <<Edge("erc4337-1", "transfer-2"),
      Edge("transfer-2", "erc4337-1"),
      Edge("agent-default", "transfer-2"),
      Edge("transfer-2", "swap-3"),
      Edge("transfer-2", "erc20-tokens-4"),
      Edge("transfer-2", "native-token-5"),
      Edge("swap-3", "erc20-tokens-4"),
      Edge("swap-3", "native-token-5"),
      Edge("erc20-tokens-4", "swap-3"),
      Edge("erc4337-1", "transfer-6"),
      Edge("transfer-6", "erc20-tokens-4")>>

CanvasEdges == {CanvasConnections[i] : i \in DOMAIN CanvasConnections}

\* these and the connections drawn after them: a self-loop, a connection back
\* to the Transfer node and one between the Transfer nodes
ConnectionOrder ==
    CanvasConnections
        \o <<Edge("transfer-2", "transfer-2"),
              Edge("swap-3", "transfer-2"),
              Edge("transfer-2", "transfer-6")>>

\* the array `edges` of a workflow
edgesOf(w) == SelectSeq(ConnectionOrder, LAMBDA e : e \in w.edges)

IdsOf(nodes) == {nodes[i].id : i \in DOMAIN nodes}

\* the canvas after any number of drops, deletions and connections: some of
\* the nodes, and some of the connections between them
InitCanvas ==
    /\ now = 0
    /\ stored = Missing
    /\ hook = HookInit
    /\ pending = Null
    /\ lastOp = Call("init", "", "", Missing)
    /\ \E ids \in SUBSET IdsOf(CanvasNodes) :
        \E edges \in SUBSET {e \in CanvasEdges : e.source \in ids /\ e.target \in ids} :
            workflow = [nodes |-> SelectSeq(CanvasNodes, LAMBDA n : n.id \in ids),
                        edges |-> edges]
    /\ outcome = NoOutcome
    /\ traversal = NoTraversal
    /\ permissions = NoPermissions
    /\ PermissionInit

ValidateWorkflowConnectionOrder ==
    /\ outcome' = Outcome("validateWorkflowConnectionOrder",
                          validateWorkflowConnectionOrder(workflow.nodes,
                                                          workflow.edges))
    /\ UNCHANGED <<sessionVars, permissions, traversal, workflow, permissionVars>>

NextCanvas ==
    \/ ValidateWorkflowConnectionOrder

SpecCanvas == InitCanvas /\ [][NextCanvas]_vars

----------------------------------------------------------------------------
(* Smart accounts of the erc4337 nodes and the readiness of the workflow *)

\* node with the fields of its data replaced
WithData(node, data) == [node EXCEPT !.data = data]

\* toMetaMaskSmartAccount(...).address for the deploySalt keccak256(toHex(nodeId))
smartAccountOf(nodeId) ==
    CASE nodeId = "agent-default" -> "0xSA0"
      [] nodeId = "erc4337-1" -> "0xSA1"

\* text.toLowerCase() of the addresses of the model
toLowerCase(text) ==
    CASE text = "0xUSER" -> "0xuser"
      [] text = "0xUser" -> "0xuser"
      [] text = "0xSA1" -> "0xsa1"
      [] text = "0xSA1-erc20-tokens-4" -> "0xsa1-erc20-tokens-4"
      [] text = "0xSA1-native-token-5" -> "0xsa1-native-token-5"
      [] OTHER -> text

\* createSmartAccount() up to its await: the useState cell of the hook
createSmartAccount(account) ==
    IF wallet.userAddress = "" \/ ~wallet.walletClient \/ ~wallet.publicClient
    THEN [account EXCEPT
            !.error = "Wallet not connected. Please connect your wallet first."]
    ELSE [account EXCEPT !.isCreating = TRUE, !.error = "", !.calls = @ + 1]

\* the effect "Monitor nodes for smart account address changes" of the editor
monitorNodes(nodes) ==
    [id \in AccountIds |->
        LET node == find(nodes, LAMBDA n : n.id = id /\ isAccountNode(n))
        IN  IF node = Null THEN "" ELSE node[1].data.smartAccountAddress]

\* the set of the elements of an array
SetOf(array) == {array[i] : i \in DOMAIN array}

\* the token has the parameters checkWorkflowReadiness requires of it
\* the validation of a token without the check of the contract address
tokenIsValid_anyAddress(token) ==
    /\ token.data.startTime # "" /\ token.data.endTime # ""
    /\ token.data.amountLimit # "" \/ token.data.amount # ""

tokenIsValid(token) ==
    /\ token.data.startTime # "" /\ token.data.endTime # ""
    /\ token.data.amountLimit # "" \/ token.data.amount # ""
    /\ token.type = "native-token" \/ token.data.tokenAddress # ""

\* the end of checkWorkflowReadiness(): the result for the address found and
\* the token nodes allTokens of the context
readinessOfTokens(actualSmartAccountAddr, allTokens) ==
    IF Len(allTokens) = 0
    THEN [NotReady EXCEPT !.smartAccountAddr = actualSmartAccountAddr]
    ELSE [ready |-> \A i \in DOMAIN allTokens : tokenIsValid(allTokens[i]),
          smartAccountAddr |-> actualSmartAccountAddr,
          tokenNodes |-> allTokens]

\* all token nodes of the context, ERC-20 first
allTokensOf(context) == context.allTokenNodes \o context.allNativeTokenNodes

\* nodeSmartAccountAddr || stateSmartAccountAddr
actualSmartAccountAddrOf(erc4337Node, accountsOfNodes) ==
    IF erc4337Node.data.smartAccountAddress # ""
    THEN erc4337Node.data.smartAccountAddress
    ELSE accountsOfNodes[erc4337Node.id]

\* checkWorkflowReadiness() without the return for an account that has not
\* been created yet
checkWorkflowReadiness_anyAddress(nodes, edges, accountsOfNodes) ==
    LET erc4337Node == find(nodes, isAccountNode)
        transferNode == find(nodes, LAMBDA n : n.type = "transfer")
        tokenNode == find(nodes, LAMBDA n : n.type = "erc20-tokens")
        nativeTokenNode == find(nodes, LAMBDA n : n.type = "native-token")
    IN  IF ~validateWorkflowConnectionOrder(nodes, SetOf(edges)).valid
        THEN NotReady
        ELSE IF \/ erc4337Node = Null
                \/ transferNode = Null
                \/ tokenNode = Null /\ nativeTokenNode = Null
        THEN NotReady
        ELSE readinessOfTokens(
                 actualSmartAccountAddrOf(erc4337Node[1], accountsOfNodes),
                 allTokensOf(analyzeTransferContext(transferNode[1].id,
                                                    nodes, edges)))

\* checkWorkflowReadiness() of ManualPermissionRequestButton for its props
\* nodes, edges and smartAccounts
checkWorkflowReadiness(nodes, edges, accountsOfNodes) ==
    LET erc4337Node == find(nodes, isAccountNode)
        transferNode == find(nodes, LAMBDA n : n.type = "transfer")
        tokenNode == find(nodes, LAMBDA n : n.type = "erc20-tokens")
        nativeTokenNode == find(nodes, LAMBDA n : n.type = "native-token")
    IN  IF ~validateWorkflowConnectionOrder(nodes, SetOf(edges)).valid
        THEN NotReady
        ELSE IF \/ erc4337Node = Null
                \/ transferNode = Null
                \/ tokenNode = Null /\ nativeTokenNode = Null
        THEN NotReady
        ELSE IF actualSmartAccountAddrOf(erc4337Node[1], accountsOfNodes) = ""
        THEN NotReady
        ELSE readinessOfTokens(
                 actualSmartAccountAddrOf(erc4337Node[1], accountsOfNodes),
                 allTokensOf(analyzeTransferContext(transferNode[1].id,
                                                    nodes, edges)))

\* the useState cells of ManualPermissionRequestButton after handleButtonClick
\* has got the result of checkWorkflowReadiness()
openDialog(result, cells) ==
    IF result.ready /\ result.tokenNodes # <<>> /\ result.smartAccountAddr # ""
    THEN [showDialog |-> TRUE,
          allTokenNodes |-> result.tokenNodes,
          smartAccountAddr |-> result.smartAccountAddr]
    ELSE cells

\* the erc4337 node components on the canvas, each with its useSmartAccount
MountedAccounts ==
    {n.id : n \in {m \in SetOf(workflow.nodes) : m.type = "erc4337"}}

\* the auto-create effect of useSmartAccount(nodeId)
UseSmartAccountEffect ==
    \E nodeId \in MountedAccounts :
        LET account == accounts[nodeId]
            storedAddress == account.stored
            mayCreate ==
                wallet.walletClient /\ wallet.publicClient /\ ~account.isCreating
            after ==
                IF nodeId = "agent-default"
                THEN account
                ELSE IF /\ storedAddress # ""
                        /\ wallet.userAddress # ""
                        /\ toLowerCase(storedAddress)
                            = toLowerCase(wallet.userAddress)
                THEN IF mayCreate
                     THEN createSmartAccount([account EXCEPT !.stored = ""])
                     ELSE [account EXCEPT !.stored = ""]
                ELSE IF storedAddress # ""
                THEN [account EXCEPT !.address = storedAddress]
                ELSE IF wallet.userAddress # "" /\ mayCreate
                THEN createSmartAccount(account)
                ELSE account
        IN  /\ accounts' = [accounts EXCEPT ![nodeId] = after]
            /\ outcome' = [NoOutcome EXCEPT
                               !.op = "useSmartAccount",
                               !.nodeId = nodeId,
                               !.started = after.isCreating /\ ~account.isCreating]
            /\ UNCHANGED <<sessionVars, permissions, traversal, workflow, wallet, smartAccounts,
                           dialog, manager>>

\* createSmartAccount() after its await: toMetaMaskSmartAccount has resolved
SmartAccountCreated ==
    \E nodeId \in AccountIds :
        /\ accounts[nodeId].calls > 0
        /\ accounts' = [accounts EXCEPT ![nodeId] =
                            [stored |-> smartAccountOf(nodeId),
                             address |-> smartAccountOf(nodeId),
                             isCreating |-> FALSE, error |-> "",
                             calls |-> @.calls - 1]]
        /\ outcome' = [NoOutcome EXCEPT !.op = "createSmartAccount",
                                        !.nodeId = nodeId]
        /\ UNCHANGED <<sessionVars, permissions, traversal, workflow, wallet, smartAccounts,
                       dialog, manager>>

\* createSmartAccount() after its await: toMetaMaskSmartAccount has rejected
SmartAccountFailed ==
    \E nodeId \in AccountIds :
        /\ accounts[nodeId].calls > 0
        /\ accounts' = [accounts EXCEPT ![nodeId] =
                            [@ EXCEPT !.isCreating = FALSE,
                                      !.error = "Failed to create smart account",
                                      !.calls = @ - 1]]
        /\ outcome' = [NoOutcome EXCEPT !.op = "createSmartAccount",
                                        !.nodeId = nodeId]
        /\ UNCHANGED <<sessionVars, permissions, traversal, workflow, wallet, smartAccounts,
                       dialog, manager>>

\* createSmartAccount(), or refreshAccount(), called by a component that holds
\* the hook, up to its await
RefreshAccount ==
    \E nodeId \in MountedAccounts :
        /\ accounts[nodeId].calls < MaxCalls
        /\ accounts' = [accounts EXCEPT ![nodeId] = createSmartAccount(@)]
        /\ outcome' = [NoOutcome EXCEPT
                           !.op = "refreshAccount",
                           !.nodeId = nodeId,
                           !.started = accounts'[nodeId].calls
                                            > accounts[nodeId].calls]
        /\ UNCHANGED <<sessionVars, permissions, traversal, workflow, wallet,
                       smartAccounts, dialog, manager>>

\* the effect of ERC4337Node that copies the hook's address into the node data
UpdateNodeData ==
    \E i \in DOMAIN workflow.nodes :
        LET node == workflow.nodes[i]
        IN  /\ node.type = "erc4337"
            /\ accounts[node.id].address # ""
            /\ node.data.smartAccountAddress = ""
            /\ workflow' =
                [workflow EXCEPT !.nodes[i].data.smartAccountAddress =
                                    accounts[node.id].address]
            /\ outcome' = [NoOutcome EXCEPT !.op = "updateNodeData",
                                            !.nodeId = node.id]
            /\ UNCHANGED <<sessionVars, permissions, traversal, permissionVars>>

\* the effect of the editor that follows a change of `nodes`
MonitorNodes ==
    /\ smartAccounts # monitorNodes(workflow.nodes)
    /\ smartAccounts' = monitorNodes(workflow.nodes)
    /\ outcome' = [NoOutcome EXCEPT !.op = "monitorNodes"]
    /\ UNCHANGED <<sessionVars, permissions, traversal, workflow, wallet, accounts, dialog, manager>>

\* handleButtonClick of ManualPermissionRequestButton
HandleButtonClick ==
    /\ outcome' =
        [NoOutcome EXCEPT
            !.op = "checkWorkflowReadiness",
            !.readiness = checkWorkflowReadiness(workflow.nodes,
                                                 edgesOf(workflow),
                                                 smartAccounts)]
    /\ dialog' = openDialog(outcome'.readiness, dialog)
    /\ UNCHANGED <<sessionVars, permissions, traversal, workflow, wallet, accounts, smartAccounts,
                   manager>>

\* a wallet with an address whose clients are still loading, and a connected one
ConnectedWallet ==
    [userAddress |-> "0xUser", walletClient |-> TRUE, publicClient |-> TRUE]

Wallets ==
    {NoWallet,
     [userAddress |-> "0xUser", walletClient |-> FALSE, publicClient |-> FALSE],
     ConnectedWallet}

\* the scope parameters a user has typed into a token node
ScopeData ==
    [NoData EXCEPT !.startTime = "1970-01-01T00:01:00Z",
                   !.endTime = "1970-01-02T00:01:00Z",
                   !.amountLimit = "100",
                   !.tokenAddress = "0xToken"]

\* a workflow of an earlier session that was opened again: its erc4337 nodes
\* may carry an address in their data, the placeholder node as well
AccountCanvas ==
    {<<WithData(Node("agent-default", "erc4337"),
                [NoData EXCEPT !.smartAccountAddress = agent]),
       WithData(Node("erc4337-1", "erc4337"),
                [NoData EXCEPT !.smartAccountAddress = own]),
       Node("transfer-2", "transfer"),
       WithData(Node("erc20-tokens-4", "erc20-tokens"), scope)>> :
        agent \in {"", "0xSA0"}, own \in {"", "0xSA1"},
        scope \in {NoData, ScopeData}}

AccountEdges ==
    {Edge("agent-default", "transfer-2"),
     Edge("erc4337-1", "transfer-2"),
     Edge("transfer-2", "erc20-tokens-4")}

\* the editor with some of these nodes and connections on the canvas, a wallet
\* and the smartAccount_<id> items left in localStorage
InitAccounts ==
    /\ now = 0
    /\ stored = Missing
    /\ hook = HookInit
    /\ pending = Null
    /\ lastOp = Call("init", "", "", Missing)
    /\ \E canvas \in AccountCanvas :
       \E ids \in SUBSET IdsOf(canvas) :
        \E edges \in SUBSET {e \in AccountEdges :
                                e.source \in ids /\ e.target \in ids} :
            workflow = [nodes |-> SelectSeq(canvas, LAMBDA n : n.id \in ids),
                        edges |-> edges]
    /\ outcome = NoOutcome
    /\ traversal = NoTraversal
    /\ permissions = NoPermissions
    /\ wallet \in Wallets
    /\ \E agent \in {"", "0xSA0"}, own \in {"", "0xSA1", "0xUSER"} :
        accounts = [id \in AccountIds |->
                        [NoAccount EXCEPT !.stored =
                            IF id = "agent-default" THEN agent ELSE own]]
    /\ smartAccounts = [id \in AccountIds |-> ""]
    /\ dialog = DialogInit
    /\ manager = ManagerInit

NextAccounts ==
    \/ UseSmartAccountEffect
    \/ SmartAccountCreated
    \/ SmartAccountFailed
    \/ UpdateNodeData
    \/ MonitorNodes
    \/ ValidateWorkflowConnectionOrder
    \/ HandleButtonClick

SpecAccounts == InitAccounts /\ [][NextAccounts]_vars

\* the editor with an Account node on the canvas, a wallet connected or not,
\* and the address an earlier session stored for the node or none
InitCreation ==
    /\ now = 0
    /\ stored = Missing
    /\ hook = HookInit
    /\ pending = Null
    /\ lastOp = Call("init", "", "", Missing)
    /\ \E canvas \in {c \in AccountCanvas : c[1].data.smartAccountAddress = ""} :
        workflow = [nodes |-> canvas, edges |-> AccountEdges]
    /\ outcome = NoOutcome
    /\ traversal = NoTraversal
    /\ permissions = NoPermissions
    /\ wallet \in Wallets
    /\ \E own \in {"", "0xSA1", "0xUSER"} :
        accounts = [id \in AccountIds |->
                        [NoAccount EXCEPT !.stored =
                            IF id = "agent-default" THEN "" ELSE own]]
    /\ smartAccounts = [id \in AccountIds |-> ""]
    /\ dialog = DialogInit
    /\ manager = ManagerInit

NextCreation ==
    \/ UseSmartAccountEffect
    \/ RefreshAccount
    \/ SmartAccountCreated
    \/ SmartAccountFailed
    \/ UpdateNodeData
    \/ MonitorNodes

SpecCreation == InitCreation /\ [][NextCreation]_vars

----------------------------------------------------------------------------
(* PermissionProvider: the permissions granted per account, kept in a
   useState cell and written to the localStorage item erc4337_permissions *)

\* the useState cell permissions of a provider
permissionsOf(p) == permissions.providers[p].permissions

\* JSON.parse(JSON.stringify(map)): a property whose value is undefined is
\* left out
stringify(map) ==
    [key \in DOMAIN map |-> IF map[key] = Undefined THEN Absent ELSE map[key]]

\* map[name] of a JavaScript object: a name it has no property of reads as
\* one whose value is undefined does
read(map, name) == IF name \in DOMAIN map THEN map[name] ELSE Absent

\* the updater of savePermission with the key as it was given
savePermission_asGiven(prev, newPermission, accountAddress) ==
    [prev EXCEPT ![accountAddress] = newPermission]

\* the updater of savePermission that keeps a permission there already is
savePermission_keepFirst(prev, newPermission, accountAddress) ==
    IF prev[toLowerCase(accountAddress)] = Absent
    THEN [prev EXCEPT ![toLowerCase(accountAddress)] = newPermission]
    ELSE prev

\* the updater of savePermission: { ...prev, [normalizedAddress]: newPermission }
savePermission(prev, newPermission, accountAddress) ==
    [prev EXCEPT ![toLowerCase(accountAddress)] = newPermission]

\* the updater of removePermission: { ...prev } and delete updated[normalizedAddress]
removePermission(prev, accountAddress) ==
    [prev EXCEPT ![toLowerCase(accountAddress)] = Absent]

\* permissions[normalizedAddress] || null
fetchPermission(map, accountAddress) ==
    LET permission == read(map, toLowerCase(accountAddress))
    IN  IF permission \in {Absent, Undefined} THEN Null ELSE Some(permission)

\* `normalizedAddress in permissions` in place of !!permissions[normalizedAddress]
hasPermissionForAccount_in(map, accountAddress) ==
    read(map, toLowerCase(accountAddress)) # Absent

\* !!permissions[normalizedAddress]
hasPermissionForAccount(map, accountAddress) ==
    read(map, toLowerCase(accountAddress)) \notin {Absent, Undefined}

\* permissions[normalizedAddress] || null
getPermissionForAccount(map, accountAddress) ==
    LET permission == read(map, toLowerCase(accountAddress))
    IN  IF permission \in {Absent, Undefined} THEN Null ELSE Some(permission)

\* hasPermission of the context value: Object.keys(permissions).length > 0
hasPermission(map) == \E key \in DOMAIN map : map[key] # Absent

\* the provider whose useState cell is map and the item written from it
written(p, map) ==
    [permissions EXCEPT !.providers[p].permissions = map,
                        !.item = Some(stringify(map))]

\* a PermissionProvider is mounted and its effect loads the item
MountProvider ==
    \E p \in Providers :
        /\ ~permissions.providers[p].mounted
        /\ permissions' =
            [permissions EXCEPT
                !.providers[p] =
                    [mounted |-> TRUE,
                     permissions |-> IF permissions.item = Null
                                     THEN NoPermissionsMap
                                     ELSE permissions.item[1]]]
        /\ outcome' = [NoOutcome EXCEPT !.op = "mount", !.provider = p]
        /\ UNCHANGED <<sessionVars, traversal, workflow, wallet, accounts,
                       smartAccounts, dialog, manager>>

\* the dialog is closed or the page is left
UnmountProvider ==
    \E p \in Providers :
        /\ permissions.providers[p].mounted
        /\ permissions' =
            [permissions EXCEPT
                !.providers[p] =
                    [mounted |-> FALSE, permissions |-> NoPermissionsMap]]
        /\ outcome' = [NoOutcome EXCEPT !.op = "unmount", !.provider = p]
        /\ UNCHANGED <<sessionVars, traversal, workflow, wallet, accounts,
                       smartAccounts, dialog, manager>>

\* what a granting call may hand to savePermission as permissions[0]
Grants == {"grant-1", "grant-2"}

\* the keys the components of the model call the store with
CalledKeys == {"0xSA1", "0xsa1", "0xSA1-erc20-tokens-4", "0xsa1-erc20-tokens-4"}

\* savePermission(newPermission, accountAddress) of a mounted provider
SavePermission ==
    \E p \in Providers, key \in CalledKeys, grant \in Grants \cup {Undefined} :
        /\ permissions.providers[p].mounted
        /\ permissions' =
            written(p, savePermission(permissionsOf(p), grant, key))
        /\ outcome' = [NoOutcome EXCEPT !.op = "savePermission",
                                        !.provider = p, !.key = key,
                                        !.grant = grant]
        /\ UNCHANGED <<sessionVars, traversal, workflow, wallet, accounts,
                       smartAccounts, dialog, manager>>

\* removePermission(accountAddress) of a mounted provider
RemovePermission ==
    \E p \in Providers, key \in CalledKeys :
        /\ permissions.providers[p].mounted
        /\ permissions' = written(p, removePermission(permissionsOf(p), key))
        /\ outcome' = [NoOutcome EXCEPT !.op = "removePermission",
                                        !.provider = p, !.key = key]
        /\ UNCHANGED <<sessionVars, traversal, workflow, wallet, accounts,
                       smartAccounts, dialog, manager>>

\* fetchPermission(accountAddress) of a mounted provider
FetchPermission ==
    \E p \in Providers, key \in CalledKeys :
        /\ permissions.providers[p].mounted
        /\ outcome' = [NoOutcome EXCEPT
                          !.op = "fetchPermission", !.provider = p, !.key = key,
                          !.found = fetchPermission(permissionsOf(p), key)]
        /\ UNCHANGED <<sessionVars, traversal, workflow, permissionVars,
                       permissions>>

\* hasPermissionForAccount(accountAddress) of a mounted provider
HasPermissionForAccount ==
    \E p \in Providers, key \in CalledKeys :
        /\ permissions.providers[p].mounted
        /\ outcome' = [NoOutcome EXCEPT
                          !.op = "hasPermissionForAccount", !.provider = p,
                          !.key = key,
                          !.granted = hasPermissionForAccount(permissionsOf(p), key)]
        /\ UNCHANGED <<sessionVars, traversal, workflow, permissionVars,
                       permissions>>

\* getPermissionForAccount(accountAddress) of a mounted provider
GetPermissionForAccount ==
    \E p \in Providers, key \in CalledKeys :
        /\ permissions.providers[p].mounted
        /\ outcome' = [NoOutcome EXCEPT
                          !.op = "getPermissionForAccount", !.provider = p,
                          !.key = key,
                          !.found = getPermissionForAccount(permissionsOf(p), key)]
        /\ UNCHANGED <<sessionVars, traversal, workflow, permissionVars,
                       permissions>>

\* the editor and the execute page before either mounts its provider, with
\* the item an earlier session left or none
InitStore ==
    /\ now = 0
    /\ stored = Missing
    /\ hook = HookInit
    /\ pending = Null
    /\ lastOp = Call("init", "", "", Missing)
    /\ workflow = [nodes |-> <<>>, edges |-> {}]
    /\ outcome = NoOutcome
    /\ traversal = NoTraversal
    /\ PermissionInit
    /\ permissions \in
        {[NoPermissions EXCEPT !.item = item] :
            item \in {Null,
                      Some(savePermission(NoPermissionsMap, "grant-1", "0xSA1"))}}

NextStore ==
    \/ MountProvider
    \/ UnmountProvider
    \/ SavePermission
    \/ RemovePermission
    \/ FetchPermission
    \/ HasPermissionForAccount
    \/ GetPermissionForAccount

SpecStore == InitStore /\ [][NextStore]_vars


----------------------------------------------------------------------------
(* Permission requests: TokenPermissionCard and WorkflowPermissionManager *)

\* Math.floor(new Date(text).getTime() / 1000)
timestampOf(text) == getTime(text) \div 1000

\* the permissionData handed to client.requestExecutionPermissions
PermissionData(type, address, tokenAddress, expiry, startTime, periodDuration) ==
    [type |-> type, address |-> address, tokenAddress |-> tokenAddress,
     expiry |-> expiry, startTime |-> startTime,
     periodDuration |-> periodDuration]

\* permissionKey of TokenPermissionCard
permissionKey(smartAccountAddress, nodeId) == smartAccountAddress \o "-" \o nodeId

\* what a grant handler did: the request it sent, or the message of the error
\* it reported and no request
Sent(request) == [request |-> Some(request), error |-> ""]
Rejected(message) == [request |-> Null, error |-> message]

\* handleGrantPermission of TokenPermissionCard for its props tokenNode and
\* smartAccountAddress, up to client.requestExecutionPermissions
handleGrantPermission(tokenNode, smartAccountAddress, walletClient) ==
    LET tokenData == tokenNode.data
        isNativeToken == tokenNode.type = "native-token"
        startTimestamp == timestampOf(tokenData.startTime)
        expiry == timestampOf(tokenData.endTime)
        periodDuration == expiry - startTimestamp
    IN  IF smartAccountAddress = ""
        THEN Rejected("Smart account address not found")
        ELSE IF ~walletClient
        THEN Rejected("Wallet client not connected")
        ELSE IF ~isNativeToken /\ tokenData.tokenAddress = ""
        THEN Rejected("Token contract address is required for ERC-20 permissions")
        ELSE IF tokenData.startTime = "" \/ tokenData.endTime = ""
        THEN Rejected("Start time and end time are required for permissions")
        ELSE IF periodDuration <= 0
        THEN Rejected("End time must be after start time")
        ELSE Sent(PermissionData(
                      IF isNativeToken THEN "native-token-periodic"
                                       ELSE "erc20-token-periodic",
                      smartAccountAddress,
                      IF isNativeToken THEN "" ELSE tokenData.tokenAddress,
                      expiry, startTimestamp, periodDuration))

\* handleGrantPermissions of WorkflowPermissionManager for its prop
\* smartAccountAddress and its state, up to client.requestExecutionPermissions;
\* seconds is Math.floor(Date.now() / 1000)
handleGrantPermissions(smartAccountAddress, walletClient, detectedParams, workflowType, seconds) ==
    IF smartAccountAddress = ""
    THEN Rejected("Smart account address not found")
    ELSE IF ~walletClient
    THEN Rejected("Wallet client not connected")
    ELSE IF detectedParams = Null
    THEN Rejected("No permission parameters detected in workflow")
    ELSE
    LET params == detectedParams[1]
        expiry ==
            IF params.endTime # ""
            THEN timestampOf(params.endTime)
            ELSE seconds + 30 * 24 * 60 * 60
        startTimestamp ==
            IF params.startTime # ""
            THEN timestampOf(params.startTime)
            ELSE seconds
        periodDuration ==
            IF params.periodDuration # 0 THEN params.periodDuration ELSE 86400
    IN  IF workflowType = "erc20-transfer" /\ params.tokenAddress = ""
        THEN Rejected("Token contract address is required for ERC-20 transfers. Please select a token in the ERC-20 Tokens node.")
        ELSE IF workflowType = "erc20-transfer"
        THEN Sent(PermissionData("erc20-token-periodic", smartAccountAddress,
                                 params.tokenAddress, expiry, startTimestamp,
                                 periodDuration))
        ELSE Sent(PermissionData("native-token-periodic", smartAccountAddress,
                                 "", expiry, startTimestamp, periodDuration))

\* Grant Permission pressed on the TokenPermissionCard of a token of the dialog
HandleGrantPermission ==
    /\ dialog.showDialog
    /\ \E i \in DOMAIN dialog.allTokenNodes :
        LET tokenNode == dialog.allTokenNodes[i]
            done == handleGrantPermission(tokenNode, dialog.smartAccountAddr,
                                          wallet.walletClient)
        IN  \* if (hasPermission) the card shows no button
            /\ ~hasPermissionForAccount(
                    permissionsOf("dialog"),
                    permissionKey(dialog.smartAccountAddr, tokenNode.id))
            /\ outcome' = [NoOutcome EXCEPT !.op = "handleGrantPermission",
                                            !.nodeId = tokenNode.id,
                                            !.request = done.request,
                                            !.error = done.error]
    /\ UNCHANGED <<sessionVars, permissions, traversal, workflow, permissionVars>>

\* the effect of WorkflowPermissionManager that follows a change of its props
\* nodes and edges
detect(context, cells) ==
    IF context.permissionParams # Null /\ context.smartAccountNode # Null
    THEN [cells EXCEPT !.detectedParams = context.permissionParams,
                       !.workflowType = context.operationType]
    ELSE cells

\* the body of the effect for the props nodes and edges
analyzeWorkflow(nodes, edges, cells) ==
    LET transferNodes == SelectSeq(nodes, LAMBDA n : n.type = "transfer")
    IN  IF Len(transferNodes) > 0
        THEN detect(analyzeTransferContext(transferNodes[1].id, nodes, edges),
                    cells)
        ELSE cells

AnalyzeWorkflow ==
        /\ manager' = analyzeWorkflow(workflow.nodes, edgesOf(workflow), manager)
        /\ outcome' = [NoOutcome EXCEPT !.op = "analyzeWorkflow"]
        /\ UNCHANGED <<sessionVars, permissions, traversal, workflow, wallet, accounts, smartAccounts,
                       dialog>>

\* Grant Permissions pressed in WorkflowPermissionManager
HandleGrantPermissions ==
    LET done == handleGrantPermissions(manager.smartAccountAddress,
                                       wallet.walletClient,
                                       manager.detectedParams,
                                       manager.workflowType, now \div 1000)
    IN  \* if (hasPermission) the manager shows no button
        /\ ~(/\ manager.smartAccountAddress # ""
             /\ hasPermissionForAccount(permissionsOf("dialog"),
                                        manager.smartAccountAddress))
        /\ manager' = [manager EXCEPT !.error = done.error]
        /\ outcome' = [NoOutcome EXCEPT !.op = "handleGrantPermissions",
                                        !.request = done.request,
                                        !.error = done.error]
        /\ UNCHANGED <<sessionVars, permissions, traversal, workflow, wallet, accounts, smartAccounts,
                       dialog>>

\* the start and end times a user may have typed into a token node
DateTexts == {"", "1970-01-01T00:01:00Z", "1970-01-01T00:02:00Z"}

\* the parameters of an ERC-20 token node and of a native token node
TokenScopes ==
    {[NoData EXCEPT !.startTime = startTime, !.endTime = endTime,
                    !.amountLimit = amountLimit, !.tokenAddress = tokenAddress] :
        startTime \in DateTexts, endTime \in DateTexts,
        amountLimit \in {"", "100"}, tokenAddress \in {"", "0xToken"}}

NativeScopes == {scope \in TokenScopes : scope.tokenAddress = ""}

\* the workflows Account -> Transfer -> scope nodes, with and without the
\* placeholder node and with any parameters in the scope nodes
PermissionCanvas ==
    {<<Node("agent-default", "erc4337"),
       WithData(Node("erc4337-1", "erc4337"),
                [NoData EXCEPT !.smartAccountAddress = "0xSA1"]),
       Node("transfer-2", "transfer"),
       WithData(Node("erc20-tokens-4", "erc20-tokens"), token),
       WithData(Node("native-token-5", "native-token"), native)>> :
        token \in TokenScopes, native \in NativeScopes}

PermissionEdges ==
    {Edge("transfer-2", "erc20-tokens-4"), Edge("transfer-2", "native-token-5")}

\* the editor with such a workflow on the canvas and the permission manager
\* given the address of the account node or none
InitPermissions ==
    /\ now = 0
    /\ stored = Missing
    /\ hook = HookInit
    /\ pending = Null
    /\ lastOp = Call("init", "", "", Missing)
    /\ \E canvas \in PermissionCanvas :
       \E tokens \in SUBSET {"erc20-tokens-4", "native-token-5"} :
       \E edges \in SUBSET {e \in PermissionEdges : e.target \in tokens} :
            workflow =
                [nodes |-> SelectSeq(canvas,
                                     LAMBDA n : n.type \in {"erc4337", "transfer"}
                                                \/ n.id \in tokens),
                 edges |-> {Edge("erc4337-1", "transfer-2")} \cup edges]
    /\ outcome = NoOutcome
    /\ traversal = NoTraversal
    /\ permissions = NoPermissions
    /\ wallet \in {NoWallet, ConnectedWallet}
    /\ accounts = [id \in AccountIds |-> NoAccount]
    /\ smartAccounts = [id \in AccountIds |-> ""]
    /\ dialog = DialogInit
    /\ manager \in {[ManagerInit EXCEPT !.smartAccountAddress = address] :
                        address \in {"", "0xSA1"}}

NextPermissions ==
    \/ HandleButtonClick
    \/ HandleGrantPermission
    \/ AnalyzeWorkflow
    \/ HandleGrantPermissions

SpecPermissions == InitPermissions /\ [][NextPermissions]_vars

\* the editor with an Account node whose smart account is still to be created
\* or was created in an earlier session, and the permission manager given an
\* address or none
InitSigner ==
    /\ now = 0
    /\ stored = Missing
    /\ hook = HookInit
    /\ pending = Null
    /\ lastOp = Call("init", "", "", Missing)
    /\ \E canvas \in {c \in AccountCanvas :
                            /\ c[1].data.smartAccountAddress = ""
                            /\ c[4].data = ScopeData} :
       \E edges \in SUBSET AccountEdges :
            workflow = [nodes |-> canvas, edges |-> edges]
    /\ outcome = NoOutcome
    /\ traversal = NoTraversal
    /\ permissions = NoPermissions
    /\ wallet \in {NoWallet, ConnectedWallet}
    /\ accounts = [id \in AccountIds |-> NoAccount]
    /\ smartAccounts = [id \in AccountIds |-> ""]
    /\ dialog = DialogInit
    /\ manager \in {[ManagerInit EXCEPT !.smartAccountAddress = address] :
                        address \in {"", "0xSA1"}}

NextSigner ==
    \/ UseSmartAccountEffect
    \/ SmartAccountCreated
    \/ SmartAccountFailed
    \/ UpdateNodeData
    \/ MonitorNodes
    \/ HandleButtonClick
    \/ HandleGrantPermission
    \/ AnalyzeWorkflow
    \/ HandleGrantPermissions

SpecSigner == InitSigner /\ [][NextSigner]_vars

\* what `await client.requestExecutionPermissions([permissionData])` may do:
\* throw, or resolve with undefined, with an empty array or with an array
\* whose first item is a grant
Responses == {"rejected", "undefined", "empty"} \cup Grants

\* handleGrantPermission after its await: what it hands to savePermission,
\* if it gets there
cardSaves(response) == IF response \in Grants THEN Some(response) ELSE Null

\* handleGrantPermissions after its await: what it hands to savePermission
\* as permissions[0], if it gets there
managerSaves(response) ==
    IF response \in Grants
    THEN Some(response)
    ELSE IF response = "empty" THEN Some(Undefined) ELSE Null

\* the provider after a handler saved, or did not save, under a key
saved(saves, key) ==
    IF saves = Null
    THEN permissions
    ELSE written("dialog", savePermission(permissionsOf("dialog"), saves[1], key))

\* the wallet answers the request a TokenPermissionCard sent last
CardAnswered ==
    /\ outcome.op = "handleGrantPermission"
    /\ outcome.request # Null
    /\ \E response \in Responses :
        LET key == permissionKey(dialog.smartAccountAddr, outcome.nodeId)
        IN  /\ permissions' = saved(cardSaves(response), key)
            /\ outcome' = [NoOutcome EXCEPT
                              !.op = "requestExecutionPermissions",
                              !.provider = "dialog", !.key = key,
                              !.grant = response]
    /\ UNCHANGED <<sessionVars, traversal, workflow, permissionVars>>

\* the wallet answers the request the WorkflowPermissionManager sent last
ManagerAnswered ==
    /\ outcome.op = "handleGrantPermissions"
    /\ outcome.request # Null
    /\ \E response \in Responses :
        LET key == manager.smartAccountAddress
        IN  /\ permissions' = saved(managerSaves(response), key)
            /\ outcome' = [NoOutcome EXCEPT
                              !.op = "requestExecutionPermissions",
                              !.provider = "dialog", !.key = key,
                              !.grant = response]
    /\ UNCHANGED <<sessionVars, traversal, workflow, permissionVars>>

\* the scope parameters of the workflows whose permissions are granted
GrantScopes ==
    {[NoData EXCEPT !.startTime = "1970-01-01T00:01:00Z", !.endTime = endTime,
                    !.amountLimit = "100", !.tokenAddress = "0xToken"] :
        endTime \in {"", "1970-01-01T00:02:00Z"}}

\* the permission dialog open on the scope nodes of Account -> Transfer ->
\* scopes, its provider mounted on what an earlier session left, and the
\* permission manager given the address of the account
InitGrants ==
    /\ now = 0
    /\ stored = Missing
    /\ hook = HookInit
    /\ pending = Null
    /\ lastOp = Call("init", "", "", Missing)
    /\ \E token \in GrantScopes, native \in GrantScopes :
        LET tokenNode == WithData(Node("erc20-tokens-4", "erc20-tokens"), token)
            nativeNode ==
                WithData(Node("native-token-5", "native-token"),
                         [native EXCEPT !.tokenAddress = ""])
        IN  /\ workflow =
                [nodes |-> <<WithData(Node("erc4337-1", "erc4337"),
                                      [NoData EXCEPT !.smartAccountAddress = "0xSA1"]),
                             Node("transfer-2", "transfer"), tokenNode, nativeNode>>,
                 edges |-> {Edge("erc4337-1", "transfer-2")} \cup PermissionEdges]
            /\ dialog = [showDialog |-> TRUE,
                         allTokenNodes |-> <<tokenNode, nativeNode>>,
                         smartAccountAddr |-> "0xSA1"]
    /\ outcome = NoOutcome
    /\ traversal = NoTraversal
    /\ wallet = ConnectedWallet
    /\ accounts = [id \in AccountIds |-> NoAccount]
    /\ smartAccounts = [id \in AccountIds |-> ""]
    /\ manager = [ManagerInit EXCEPT !.smartAccountAddress = "0xSA1"]
    /\ \E item \in {Null,
                    Some(savePermission(NoPermissionsMap, "grant-2",
                                        "0xSA1-native-token-5"))} :
        permissions =
            [NoPermissions EXCEPT
                !.item = item,
                !.providers["dialog"] =
                    [mounted |-> TRUE,
                     permissions |-> IF item = Null THEN NoPermissionsMap
                                                    ELSE item[1]]]

NextGrants ==
    \/ HandleGrantPermission
    \/ CardAnswered
    \/ AnalyzeWorkflow
    \/ HandleGrantPermissions
    \/ ManagerAnswered

SpecGrants == InitGrants /\ [][NextGrants]_vars

\* the editor after an edit of the canvas: the new nodes and edges reach the
\* WorkflowPermissionManager as props and its effect runs
edited(op, nodes, edges) ==
    /\ workflow' = [nodes |-> nodes, edges |-> edges]
    /\ manager' = analyzeWorkflow(nodes, edgesOf(workflow'), manager)
    /\ outcome' = [NoOutcome EXCEPT !.op = op]
    /\ UNCHANGED <<sessionVars, permissions, traversal, wallet, accounts,
                   smartAccounts, dialog>>

\* the edges a user may draw
Connections ==
    {Edge("erc4337-1", "transfer-2"), Edge("transfer-2", "erc20-tokens-4"),
     Edge("transfer-2", "native-token-5")}

\* onConnect: setEdges(eds => addEdge(params, eds))
OnConnect ==
    \E edge \in Connections \ workflow.edges :
        /\ {edge.source, edge.target} \subseteq {n.id : n \in SetOf(workflow.nodes)}
        /\ edited("onConnect", workflow.nodes, workflow.edges \cup {edge})

\* onEdgesChange with the removal of an edge
OnEdgesChange ==
    \E edge \in workflow.edges :
        edited("onEdgesChange", workflow.nodes, workflow.edges \ {edge})

\* onNodesChange with the removal of a node, which removes its edges too
OnNodesChange ==
    \E i \in DOMAIN workflow.nodes :
        LET id == workflow.nodes[i].id
        IN  edited("onNodesChange",
                   SelectSeq(workflow.nodes, LAMBDA n : n.id # id),
                   {e \in workflow.edges : e.source # id /\ e.target # id})

\* updateNodeData(nodeId, { endTime: value }) of the configuration panel
ConfigureNode ==
    \E i \in DOMAIN workflow.nodes, endTime \in DateTexts :
        /\ workflow.nodes[i].type \in {"erc20-tokens", "native-token"}
        /\ workflow.nodes[i].data.endTime # endTime
        /\ edited("updateNodeData",
                  [workflow.nodes EXCEPT ![i].data.endTime = endTime],
                  workflow.edges)

\* the editor with Account -> Transfer -> scopes on the canvas and the
\* WorkflowPermissionManager mounted on it, its effect run
InitEditing ==
    /\ now = 0
    /\ stored = Missing
    /\ hook = HookInit
    /\ pending = Null
    /\ lastOp = Call("init", "", "", Missing)
    /\ \E token \in GrantScopes :
        workflow =
            [nodes |-> <<WithData(Node("erc4337-1", "erc4337"),
                                  [NoData EXCEPT !.smartAccountAddress = "0xSA1"]),
                         Node("transfer-2", "transfer"),
                         WithData(Node("erc20-tokens-4", "erc20-tokens"), token),
                         WithData(Node("native-token-5", "native-token"),
                                  [token EXCEPT !.tokenAddress = ""])>>,
             edges |-> Connections]
    /\ outcome = NoOutcome
    /\ traversal = NoTraversal
    /\ permissions = NoPermissions
    /\ wallet = ConnectedWallet
    /\ accounts = [id \in AccountIds |-> NoAccount]
    /\ smartAccounts = [id \in AccountIds |-> ""]
    /\ dialog = DialogInit
    /\ manager =
        analyzeWorkflow(workflow.nodes, edgesOf(workflow),
                        [ManagerInit EXCEPT !.smartAccountAddress = "0xSA1"])

NextEditing ==
    \/ OnConnect
    \/ OnEdgesChange
    \/ OnNodesChange
    \/ ConfigureNode
    \/ HandleGrantPermissions

SpecEditing == InitEditing /\ [][NextEditing]_vars

----------------------------------------------------------------------------
(* The browser's storage as the environment of the store *)

\* the origin's quota is used up: localStorage.setItem throws from now on
QuotaExceeded ==
    /\ stored.writable
    /\ stored' = [stored EXCEPT !.writable = FALSE]
    /\ lastOp' = Call("quotaExceeded", "", "", stored')
    /\ UNCHANGED <<now, hook, pending, editorVars>>

\* room is made in the origin's storage
QuotaFreed ==
    /\ ~stored.writable
    /\ stored' = [stored EXCEPT !.writable = TRUE]
    /\ lastOp' = Call("quotaFreed", "", "", stored')
    /\ UNCHANGED <<now, hook, pending, editorVars>>

\* the item is overwritten from outside with a text that is not JSON
ItemCorrupted ==
    /\ stored' = [present |-> TRUE, keys |-> EmptyKeys, valid |-> FALSE,
                  writable |-> stored.writable]
    /\ lastOp' = Call("itemCorrupted", "", "", stored')
    /\ UNCHANGED <<now, hook, pending, editorVars>>

\* the store and the hook's synchronous calls on a storage that may fail
NextFaults ==
    \/ Tick
    \/ GenerateSessionKey
    \/ StoreSessionKey
    \/ GetSessionKey
    \/ MarkSessionKeyAuthorized
    \/ DeleteSessionKey
    \/ GetAllSessionKeys
    \/ ClearAllSessionKeys
    \/ RevokeExpiredSessionKeys
    \/ CreateSessionKey
    \/ RevokeSessionKey
    \/ QuotaExceeded
    \/ QuotaFreed
    \/ ItemCorrupted

SpecFaults == Init /\ [][NextFaults]_vars

\* keys are created, by the store's functions or by the hook, and authorized
\* while the quota comes and goes
NextQuota ==
    \/ Tick
    \/ GenerateSessionKey
    \/ StoreSessionKey
    \/ CreateSessionKey
    \/ MarkSessionKeyAuthorized
    \/ GetSessionKey
    \/ QuotaExceeded
    \/ QuotaFreed

SpecQuota == Init /\ [][NextQuota]_vars

----------------------------------------------------------------------------
(* lib/workflow-executor.ts: the context of a Transfer node and the plan *)

\* the array of edges of a workflow, and the one in which every connection
\* has been drawn twice
edgeArrays(w) == {edgesOf(w), edgesOf(w) \o edgesOf(w)}

\* the ids analyzeTransferContext may be called with: the Transfer nodes of
\* the canvas and one that is on no canvas
TransferIds == {"transfer-2", "transfer-6", "transfer-9"}

AnalyzeTransferContext ==
    /\ \E transferNodeId \in TransferIds :
       \E edges \in edgeArrays(workflow) :
            outcome' = [NoOutcome EXCEPT
                            !.op = "analyzeTransferContext",
                            !.nodeId = transferNodeId,
                            !.edges = edges,
                            !.context = analyzeTransferContext(
                                            transferNodeId, workflow.nodes, edges)]
    /\ UNCHANGED <<sessionVars, permissions, traversal, workflow, permissionVars>>

GenerateExecutionPlan ==
    /\ \E edges \in edgeArrays(workflow) :
            outcome' = [NoOutcome EXCEPT
                            !.op = "generateExecutionPlan",
                            !.edges = edges,
                            !.plan = generateExecutionPlan(workflow.nodes, edges)]
    /\ UNCHANGED <<sessionVars, permissions, traversal, workflow, permissionVars>>

\* the nodes of the canvas with their parameters filled in
FilledNodes ==
    <<Node("agent-default", "erc4337"),
      WithData(Node("erc4337-1", "erc4337"),
               [NoData EXCEPT !.smartAccountAddress = "0xSA1"]),
      WithData(Node("transfer-2", "transfer"),
               [NoData EXCEPT !.to = "0xTo", !.amount = "5"]),
      Node("swap-3", "swap"),
      WithData(Node("erc20-tokens-4", "erc20-tokens"),
               [NoData EXCEPT !.tokenAddress = "0xToken", !.symbol = "USDC",
                              !.decimals = 6]),
      Node("native-token-5", "native-token"),
      WithData(Node("transfer-6", "transfer"),
               [NoData EXCEPT !.to = "0xTo", !.amount = "7"])>>

\* the connections that lead to and from the Transfer nodes: to them from the
\* Account node and from the placeholder (directly and through it), from
\* them to the scope nodes, directly, through the Swap node and through the
\* other Transfer node, and those that close a cycle
ContextEdges ==
    {Edge("erc4337-1", "transfer-2"), Edge("agent-default", "transfer-2"),
     Edge("erc4337-1", "transfer-6"),
     Edge("transfer-2", "swap-3"), Edge("transfer-2", "erc20-tokens-4"),
     Edge("transfer-2", "native-token-5"), Edge("swap-3", "erc20-tokens-4"),
     Edge("swap-3", "native-token-5"), Edge("transfer-6", "erc20-tokens-4"),
     Edge("transfer-2", "transfer-2"), Edge("swap-3", "transfer-2"),
     Edge("transfer-2", "transfer-6")}

\* the parameters a user may have typed into the scope nodes and the
\* Transfer node
ContextTokenScopes ==
    {[NoData EXCEPT !.startTime = startTime, !.endTime = endTime,
                    !.tokenAddress = tokenAddress,
                    !.symbol = unit.symbol, !.decimals = unit.decimals] :
        startTime \in {"", "1970-01-01T00:02:00Z"},
        endTime \in {"", "1970-01-01T00:01:00Z", "1970-01-02T00:01:00Z"},
        tokenAddress \in {"", "0xToken"},
        unit \in {[symbol |-> "", decimals |-> 0],
                  [symbol |-> "USDC", decimals |-> 6],
                  [symbol |-> "DAI", decimals |-> 0]}}

ContextNativeScopes ==
    {NoData,
     [NoData EXCEPT !.startTime = "1970-01-01T00:02:00Z"],
     [NoData EXCEPT !.startTime = "1970-01-01T00:02:00Z",
                    !.endTime = "1970-01-02T00:01:00Z"]}

ContextTransfers ==
    {NoData, [NoData EXCEPT !.to = "0xTo"], [NoData EXCEPT !.amount = "5"],
     [NoData EXCEPT !.to = "0xTo", !.amount = "5"]}

\* the workflows Account -> Transfer -> scope nodes with any parameters
ParameterCanvas ==
    {<<WithData(Node("erc4337-1", "erc4337"),
                [NoData EXCEPT !.smartAccountAddress = address]),
       WithData(Node("transfer-2", "transfer"), transfer),
       WithData(Node("erc20-tokens-4", "erc20-tokens"), token),
       WithData(Node("native-token-5", "native-token"), native)>> :
        address \in {"", "0xSA1"}, transfer \in ContextTransfers,
        token \in ContextTokenScopes, native \in ContextNativeScopes}

\* the editor with the filled nodes connected in any way, or with a workflow
\* Account -> Transfer -> scope nodes with any parameters
InitContext ==
    /\ now = 0
    /\ stored = Missing
    /\ hook = HookInit
    /\ pending = Null
    /\ lastOp = Call("init", "", "", Missing)
    /\ \/ \E edges \in SUBSET ContextEdges :
            workflow = [nodes |-> FilledNodes, edges |-> edges]
       \/ \E canvas \in ParameterCanvas :
          \E edges \in SUBSET PermissionEdges :
            workflow = [nodes |-> canvas,
                        edges |-> {Edge("erc4337-1", "transfer-2")} \cup edges]
    /\ outcome = NoOutcome
    /\ traversal = NoTraversal
    /\ permissions = NoPermissions
    /\ PermissionInit

NextContext ==
    \/ AnalyzeTransferContext
    \/ GenerateExecutionPlan

SpecContext == InitContext /\ [][NextContext]_vars

\* the nodes of a canvas with two Account nodes beside the placeholder and two
\* ERC-20 scope nodes
AgreementNodes ==
    <<Node("agent-default", "erc4337"),
      Node("erc4337-1", "erc4337"),
      Node("transfer-2", "transfer"),
      Node("swap-3", "swap"),
      Node("erc20-tokens-4", "erc20-tokens"),
      Node("native-token-5", "native-token"),
      Node("erc20-tokens-7", "erc20-tokens"),
      Node("erc4337-8", "erc4337")>>

\* the connections a user may have drawn between them
AgreementConnections ==
    <<Edge("erc4337-1", "transfer-2"),
      Edge("transfer-2", "swap-3"),
      Edge("transfer-2", "erc20-tokens-4"),
      Edge("swap-3", "erc20-tokens-7"),
      Edge("swap-3", "erc20-tokens-4"),
      Edge("transfer-2", "native-token-5"),
      Edge("transfer-2", "erc20-tokens-7"),
      Edge("erc4337-8", "transfer-2"),
      Edge("agent-default", "transfer-2")>>

reverse(array) == [i \in 1..Len(array) |-> array[Len(array) + 1 - i]]

\* the array `edges` of a workflow whose connections were drawn in this order
\* or in the opposite one: addEdge appends
drawn(w) ==
    {SelectSeq(AgreementConnections, LAMBDA e : e \in w.edges),
     reverse(SelectSeq(AgreementConnections, LAMBDA e : e \in w.edges))}

\* validateWorkflowConnectionOrder(nodes, edges) and analyzeTransferContext of
\* the first Transfer node for the same nodes and edges, as
\* checkWorkflowReadiness calls them
ValidateAndAnalyze ==
    /\ \E edges \in drawn(workflow) :
        LET transferNode == find(workflow.nodes, LAMBDA n : n.type = "transfer")
        IN  outcome' =
                [NoOutcome EXCEPT
                    !.op = "validateAndAnalyze",
                    !.validation =
                        validateWorkflowConnectionOrder(workflow.nodes,
                                                        SetOf(edges)),
                    !.edges = edges,
                    !.nodeId = IF transferNode = Null THEN ""
                                                      ELSE transferNode[1].id,
                    !.context =
                        IF transferNode = Null
                        THEN UnknownContext
                        ELSE analyzeTransferContext(transferNode[1].id,
                                                    workflow.nodes, edges)]
    /\ UNCHANGED <<sessionVars, permissions, traversal, workflow, permissionVars>>

\* the editor with some of these nodes on the canvas, the Transfer node among
\* them, and some of the connections between them
InitAgreement ==
    /\ now = 0
    /\ stored = Missing
    /\ hook = HookInit
    /\ pending = Null
    /\ lastOp = Call("init", "", "", Missing)
    /\ \E absent \in SUBSET {"swap-3", "erc4337-8", "native-token-5"} :
       \E edges \in SUBSET {e \in SetOf(AgreementConnections) :
                                {e.source, e.target} \cap absent = {}} :
            workflow = [nodes |-> SelectSeq(AgreementNodes,
                                            LAMBDA n : n.id \notin absent),
                        edges |-> edges]
    /\ outcome = NoOutcome
    /\ traversal = NoTraversal
    /\ permissions = NoPermissions
    /\ PermissionInit

NextAgreement == ValidateAndAnalyze

SpecAgreement == InitAgreement /\ [][NextAgreement]_vars

----------------------------------------------------------------------------
(* analyzeTransferContext and generateExecutionPlan step by step: every call *)
(* of traverseParents or traverseChildren, every iteration of their loops   *)
(* and every return is a step.                                              *)

\* the activation of traverseParents(nodeId) or traverseChildren(nodeId): ids
\* are the parentIds or childIds the loop has still to go through
Frame(nodeId) == [nodeId |-> nodeId, ids |-> <<>>, entered |-> FALSE]

Top == traversal.stack[Len(traversal.stack)]
Pop(stack) == SubSeq(stack, 1, Len(stack) - 1)
Traversing == traversal.phase \in {"parents", "children"}

\* a test that finds no node visited
isVisited_never(nodeId, visited) == FALSE

\* visitedParentNodes.has(nodeId), visitedChildNodes.has(nodeId)
isVisited(nodeId, visited) == nodeId \in visited

\* analyzeTransferContext(transferNodeId, nodes, edges) is called
StartAnalysis ==
    /\ traversal.phase = "idle"
    /\ \E transferNodeId \in TransferIds :
       \E edges \in edgeArrays(workflow) :
            traversal' = [NoTraversal EXCEPT !.phase = "find",
                                             !.edges = edges,
                                             !.pending = <<transferNodeId>>]
    /\ UNCHANGED <<sessionVars, permissions, workflow, outcome, permissionVars>>

\* generateExecutionPlan(nodes, edges) is called
StartPlan ==
    /\ traversal.phase = "idle"
    /\ \E edges \in edgeArrays(workflow) :
        LET transferNodes ==
                SelectSeq(workflow.nodes, LAMBDA n : n.type = "transfer")
        IN  traversal' =
                [NoTraversal EXCEPT
                    !.phase = "find",
                    !.planning = TRUE,
                    !.edges = edges,
                    !.pending = [i \in 1..Len(transferNodes) |->
                                    transferNodes[i].id]]
    /\ UNCHANGED <<sessionVars, permissions, workflow, outcome, permissionVars>>

\* analyzeTransferContext returns the context: to the caller, or to the
\* callback of transferNodes.forEach, which goes on to the next Transfer node
Returned(context) ==
    IF traversal.planning
    THEN /\ traversal' =
            [traversal EXCEPT
                !.phase = "find",
                !.executionSteps =
                    pushStep(@, find(workflow.nodes,
                                     LAMBDA n : n.id = Head(traversal.pending))[1],
                             traversal.index, context),
                !.index = @ + 1,
                !.pending = Tail(@)]
         /\ UNCHANGED outcome
    ELSE /\ traversal' = [traversal EXCEPT !.phase = "done"]
         /\ outcome' = [NoOutcome EXCEPT !.op = "analyzeTransferContext",
                                         !.nodeId = Head(traversal.pending),
                                         !.edges = traversal.edges,
                                         !.context = context]

\* nodes.find(n => n.id === transferNodeId) and, for a node found,
\* traverseParents(transferNodeId)
FindTransfer ==
    /\ traversal.phase = "find"
    /\ traversal.pending # <<>>
    /\ IF find(workflow.nodes, LAMBDA n : n.id = Head(traversal.pending)) = Null
       THEN Returned(UnknownContext)
       ELSE /\ traversal' =
                [traversal EXCEPT !.phase = "parents",
                                  !.stack = <<Frame(Head(traversal.pending))>>,
                                  !.visited = {},
                                  !.chain = <<>>,
                                  !.expanded = <<>>]
            /\ UNCHANGED outcome
    /\ UNCHANGED <<sessionVars, permissions, workflow, permissionVars>>

\* the first statements of traverseParents or traverseChildren
Enter ==
    /\ Traversing
    /\ traversal.stack # <<>>
    /\ ~Top.entered
    /\ traversal' =
        IF isVisited(Top.nodeId, traversal.visited)
        THEN [traversal EXCEPT !.stack = Pop(@)]
        ELSE [traversal EXCEPT
                !.visited = @ \cup {Top.nodeId},
                !.expanded = Append(@, Top.nodeId),
                !.stack[Len(traversal.stack)] =
                    [nodeId |-> Top.nodeId,
                     ids |-> IF traversal.phase = "parents"
                             THEN findParentNodes(Top.nodeId, traversal.edges)
                             ELSE findChildNodes(Top.nodeId, traversal.edges),
                     entered |-> TRUE]]
    /\ UNCHANGED <<sessionVars, permissions, workflow, outcome, permissionVars>>

\* the stack after an iteration of the loop for the node found: the id is
\* taken from the ids, the node pushed onto the chain and the function called
iterate(stack, node) ==
    IF node = Null
    THEN [stack EXCEPT ![Len(stack)].ids = Tail(@)]
    ELSE Append([stack EXCEPT ![Len(stack)].ids = Tail(@)], Frame(node[1].id))

\* an iteration of for (const parentId of parentIds) or of
\* for (const childId of childIds)
Loop ==
    /\ Traversing
    /\ traversal.stack # <<>>
    /\ Top.entered
    /\ Top.ids # <<>>
    /\ Len(traversal.stack) < MaxDepth
    /\ LET node == find(workflow.nodes, LAMBDA n : n.id = Head(Top.ids))
       IN  traversal' =
            [traversal EXCEPT
                !.chain = IF node = Null THEN @ ELSE Append(@, node[1]),
                !.stack = iterate(@, node)]
    /\ UNCHANGED <<sessionVars, permissions, workflow, outcome, permissionVars>>

\* the end of the loop: traverseParents or traverseChildren returns
Leave ==
    /\ Traversing
    /\ traversal.stack # <<>>
    /\ Top.entered
    /\ Top.ids = <<>>
    /\ traversal' = [traversal EXCEPT !.stack = Pop(@)]
    /\ UNCHANGED <<sessionVars, permissions, workflow, outcome, permissionVars>>

\* traverseParents(transferNodeId) has returned:
\* traverseChildren(transferNodeId) is called
TraverseChildren ==
    /\ traversal.phase = "parents"
    /\ traversal.stack = <<>>
    /\ traversal' =
        [traversal EXCEPT !.phase = "children",
                          !.parentChain = traversal.chain,
                          !.stack = <<Frame(Head(traversal.pending))>>,
                          !.visited = {},
                          !.chain = <<>>,
                          !.expanded = <<>>]
    /\ UNCHANGED <<sessionVars, permissions, workflow, outcome, permissionVars>>

\* traverseChildren(transferNodeId) has returned: the rest of
\* analyzeTransferContext, from "Identify key nodes" on
AnalysisReturns ==
    /\ traversal.phase = "children"
    /\ traversal.stack = <<>>
    /\ Returned(contextOfTokens(
                    find(workflow.nodes,
                         LAMBDA n : n.id = Head(traversal.pending)),
                    find(traversal.parentChain, LAMBDA n : n.type = "erc4337"),
                    tokensOfTransfer(
                        Head(traversal.pending), workflow.nodes, traversal.edges,
                        find(traversal.chain, LAMBDA n : n.type = "swap"))))
    /\ UNCHANGED <<sessionVars, permissions, workflow, permissionVars>>

\* transferNodes.forEach has come to its end: generateExecutionPlan returns
PlanReturns ==
    /\ traversal.phase = "find"
    /\ traversal.pending = <<>>
    /\ traversal' = [traversal EXCEPT !.phase = "done"]
    /\ outcome' = [NoOutcome EXCEPT
                        !.op = "generateExecutionPlan",
                        !.edges = traversal.edges,
                        !.plan = planOf(traversal.executionSteps)]
    /\ UNCHANGED <<sessionVars, permissions, workflow, permissionVars>>

\* the connections among which are a self-loop and a cycle through the Swap
\* node
TraversalEdges ==
    {Edge("erc4337-1", "transfer-2"), Edge("transfer-2", "transfer-2"),
     Edge("transfer-2", "swap-3"), Edge("swap-3", "transfer-2"),
     Edge("swap-3", "erc20-tokens-4"), Edge("transfer-2", "transfer-6")}

InitTraversal ==
    /\ now = 0
    /\ stored = Missing
    /\ hook = HookInit
    /\ pending = Null
    /\ lastOp = Call("init", "", "", Missing)
    /\ \E edges \in SUBSET TraversalEdges :
            workflow = [nodes |-> FilledNodes, edges |-> edges]
    /\ outcome = NoOutcome
    /\ traversal = NoTraversal
    /\ permissions = NoPermissions
    /\ PermissionInit

\* a step of the call that is running
StepTraversal ==
    \/ FindTransfer
    \/ Enter
    \/ Loop
    \/ Leave
    \/ TraverseChildren
    \/ AnalysisReturns
    \/ PlanReturns

NextTraversal ==
    \/ StartAnalysis
    \/ StartPlan
    \/ StepTraversal

\* JavaScript runs a call to its end: a step that can be taken is taken
SpecTraversal ==
    InitTraversal /\ [][NextTraversal]_vars /\ WF_vars(StepTraversal)

----------------------------------------------------------------------------
(* Properties of the session key store *)

\* the record stored for the pair, if the item st holds one
HasRecord(st, nodeId, account) ==
    st.present /\ Has(st.keys, compositeKey(nodeId, account))

RecordOf(st, nodeId, account) == st.keys[compositeKey(nodeId, account)]

\* the step is the call op(nodeId, account)
IsCall(op, nodeId, account) ==
    /\ lastOp'.op = op
    /\ lastOp'.nodeId = nodeId
    /\ lastOp'.account = account

\* C1: getSessionKey(nodeId, account) returns the stored record of the pair
\* when there is one, it is authorized and now <= expiresAt, and returns null
\* when the record is absent, expired or unauthorized.
C1_GetReturnsOnlyValidKey ==
    [][\A nodeId \in NodeIds, account \in Accounts :
        IsCall("getSessionKey", nodeId, account) =>
            IF /\ HasRecord(stored, nodeId, account)
               /\ RecordOf(stored, nodeId, account).authorized
               /\ now <= RecordOf(stored, nodeId, account).expiresAt
            THEN lastOp'.key = Some(RecordOf(stored, nodeId, account))
            ELSE lastOp'.key = Null]_vars

\* getSessionKey has returned a generated key on the last millisecond of its
\* life, and an unauthorized record of another pair is stored beside it
C1_Witness ==
    /\ lastOp.op = "getSessionKey"
    /\ lastOp.key # Null
    /\ lastOp.key[1].privateKey \in PrivateKeys
    /\ now = lastOp.key[1].expiresAt
    /\ \E nodeId \in NodeIds, account \in Accounts :
        /\ HasRecord(stored, nodeId, account)
        /\ ~RecordOf(stored, nodeId, account).authorized

\* C2: after createSessionKey has stored a fresh key for the pair, a call
\* authorizeSessionKey for that pair with the wallet connected does not
\* return false.
C2_AuthorizeAfterCreateSucceeds ==
    [][\A nodeId \in NodeIds, account \in Accounts :
        (/\ pending = Null
         /\ HasRecord(stored, nodeId, account)
         /\ ~RecordOf(stored, nodeId, account).authorized
         /\ now <= RecordOf(stored, nodeId, account).expiresAt
         /\ hook.sessionKey = Some(RecordOf(stored, nodeId, account))
         /\ IsCall("authorizeSessionKey", nodeId, account)
         /\ hook'.error # Some("Wallet not connected"))
        => lastOp'.ok = TRUE]_vars

\* C3: markSessionKeyAuthorized on a record whose expiry has passed returns
\* false and does not set its authorized flag.
C3_NoAuthorizeAfterExpiry ==
    [][\A nodeId \in NodeIds, account \in Accounts :
        (/\ HasRecord(stored, nodeId, account)
         /\ now > RecordOf(stored, nodeId, account).expiresAt
         /\ IsCall("markSessionKeyAuthorized", nodeId, account))
        => /\ lastOp'.ok = FALSE
           /\ HasRecord(stored', nodeId, account) =>
                RecordOf(stored', nodeId, account).authorized
                    = RecordOf(stored, nodeId, account).authorized]_vars

\* C4: an authorized record appears in the store only by a call of
\* markSessionKeyAuthorized for its pair.
C4_AuthorizedOnlyByAuthorize ==
    [][\A nodeId \in NodeIds, account \in Accounts :
        (/\ ~(/\ HasRecord(stored, nodeId, account)
              /\ RecordOf(stored, nodeId, account).authorized)
         /\ HasRecord(stored', nodeId, account)
         /\ RecordOf(stored', nodeId, account).authorized)
        => IsCall("markSessionKeyAuthorized", nodeId, account)]_vars

\* C5: no read of the store (getSessionKey, hasValidSessionKey,
\* exportSessionKey, getAllSessionKeys) returns, or reports as valid, a key
\* whose expiresAt is earlier than the current time.
C5_ReadsNeverShowExpiredKey ==
    /\ lastOp.op \in {"getSessionKey", "exportSessionKey"} /\ lastOp.key # Null
        => ~(lastOp.key[1].expiresAt < now)
    /\ lastOp.op = "hasValidSessionKey" /\ lastOp.ok
        => /\ HasRecord(stored, lastOp.nodeId, lastOp.account)
           /\ ~(RecordOf(stored, lastOp.nodeId, lastOp.account).expiresAt < now)
    /\ lastOp.op = "getAllSessionKeys"
        => \A sessionKey \in lastOp.all : ~(sessionKey.expiresAt < now)

\* the records of st that are expired at time t
ExpiredKeys(st, t) == {k \in DOMAIN st.keys : t > st.keys[k].expiresAt}

\* C6: getSessionKey changes the store only when the record it looks up is
\* expired: then it deletes that record and no other, returns null, and a
\* following revokeExpiredSessionKeys does not count the record; otherwise
\* the store is left as it was.
C6_GetDeletesOnlyExpiredRecord ==
    [][\A nodeId \in NodeIds, account \in Accounts :
        IsCall("getSessionKey", nodeId, account) =>
            IF /\ HasRecord(stored, nodeId, account)
               /\ now > RecordOf(stored, nodeId, account).expiresAt
            THEN /\ stored' = Json(Delete(stored.keys, compositeKey(nodeId, account)))
                 /\ lastOp'.key = Null
                 /\ revokeExpiredSessionKeys(stored', now).result
                        = Cardinality(ExpiredKeys(stored, now)) - 1
            ELSE stored' = stored]_vars

\* getSessionKey has deleted an expired record and left another pair's record
C6_Witness ==
    /\ lastOp.op = "getSessionKey"
    /\ lastOp.changed
    /\ ~HasRecord(stored, lastOp.nodeId, lastOp.account)
    /\ DOMAIN stored.keys # {}

\* C7: markSessionKeyAuthorized for a pair with no stored record returns
\* false and leaves the store unchanged.
C7_AuthorizeMissingKeyIsNoOp ==
    [][\A nodeId \in NodeIds, account \in Accounts :
        (/\ ~HasRecord(stored, nodeId, account)
         /\ IsCall("markSessionKeyAuthorized", nodeId, account))
        => /\ lastOp'.ok = FALSE
           /\ stored' = stored]_vars

\* markSessionKeyAuthorized has returned false for a pair without a record
\* while an unauthorized record of another pair is stored
C7_Witness ==
    /\ lastOp.op = "markSessionKeyAuthorized"
    /\ ~lastOp.ok
    /\ ~HasRecord(stored, lastOp.nodeId, lastOp.account)
    /\ \E nodeId \in NodeIds, account \in Accounts :
        /\ HasRecord(stored, nodeId, account)
        /\ ~RecordOf(stored, nodeId, account).authorized

\* C8: deleteSessionKey(nodeId, account) removes the record of the pair in
\* whatever state it is and leaves every other record unchanged; afterwards
\* getSessionKey returns null and markSessionKeyAuthorized returns false for
\* the pair, and a record of the pair reappears only by a call that persists
\* a key.
C8_DeleteRemovesOnlyThatRecord ==
    [][\A nodeId \in NodeIds, account \in Accounts :
        /\ IsCall("deleteSessionKey", nodeId, account) =>
            /\ stored'.present = stored.present
            /\ stored'.keys = Delete(stored.keys, compositeKey(nodeId, account))
            /\ getSessionKey(stored', nodeId, account, now).result = Null
            /\ markSessionKeyAuthorized(stored', nodeId, account).result = FALSE
        /\ (~HasRecord(stored, nodeId, account) /\ HasRecord(stored', nodeId, account))
            => \/ IsCall("storeSessionKey", nodeId, account)
               \/ IsCall("importSessionKey", nodeId, account)]_vars

\* deleteSessionKey has removed a record and left another pair's record
C8_Witness ==
    /\ lastOp.op = "deleteSessionKey"
    /\ lastOp.changed
    /\ ~HasRecord(stored, lastOp.nodeId, lastOp.account)
    /\ DOMAIN stored.keys # {}

\* C9: revokeExpiredSessionKeys deletes exactly the records with
\* now > expiresAt, returns how many it deleted and leaves the other records
\* unchanged; afterwards the store holds no expired record.
C9_SweepDeletesExactlyExpired ==
    [][lastOp'.op = "revokeExpiredSessionKeys" =>
        /\ stored'.present = stored.present
        /\ DOMAIN stored'.keys = DOMAIN stored.keys \ ExpiredKeys(stored, now)
        /\ \A k \in DOMAIN stored'.keys : stored'.keys[k] = stored.keys[k]
        /\ lastOp'.count = Cardinality(ExpiredKeys(stored, now))
        /\ ExpiredKeys(stored', now) = {}]_vars

\* revokeExpiredSessionKeys has deleted one record and kept an authorized one
C9_Witness ==
    /\ lastOp.op = "revokeExpiredSessionKeys"
    /\ lastOp.count = 1
    /\ \E k \in DOMAIN stored.keys : stored.keys[k].authorized

\* C10: generateSessionKey returns a key bound to the given nodeId and
\* account with authorized = false and expiresAt = createdAt + 604800000.
C10_GeneratedKeyExpiresAfterSevenDays ==
    lastOp.op = "generateSessionKey" =>
        /\ lastOp.key[1].nodeId = lastOp.nodeId
        /\ lastOp.key[1].smartAccountAddress = lastOp.account
        /\ lastOp.key[1].authorized = FALSE
        /\ lastOp.key[1].expiresAt = lastOp.key[1].createdAt + 604800000

\* C11: a call that stores, authorizes, deletes or looks up the key of one
\* (nodeId, account) pair leaves the record of every other pair as it was and
\* does not change what getSessionKey returns for the other pair; two distinct
\* pairs have distinct composite keys.
C11_PairsAreIsolated ==
    [][/\ \A p \in NodeIds \X PairAccounts, q \in NodeIds \X PairAccounts :
            p # q => compositeKey(p[1], p[2]) # compositeKey(q[1], q[2])
       /\ \A p \in Pairs, q \in Pairs :
            (p # q /\ lastOp'.nodeId = p[1] /\ lastOp'.account = p[2]) =>
                /\ HasRecord(stored', q[1], q[2]) = HasRecord(stored, q[1], q[2])
                /\ HasRecord(stored, q[1], q[2]) =>
                        RecordOf(stored', q[1], q[2]) = RecordOf(stored, q[1], q[2])
                /\ getSessionKey(stored', q[1], q[2], now').result
                        = getSessionKey(stored, q[1], q[2], now').result]_vars

\* a key of one account has been stored while getSessionKey returns the
\* authorized key of the other account of that node
C11_Witness ==
    /\ lastOp.op = "storeSessionKey"
    /\ lastOp.changed
    /\ lastOp.nodeId = "erc4337" /\ lastOp.account = "0xA"
    /\ getSessionKey(stored, "erc4337", "0xB", now).result # Null

\* C12: when localStorage.setItem fails inside storeSessionKey, storeSessionKey
\* throws to its caller and the store is as before: getSessionKey and
\* getAllSessionKeys show what they showed; createSessionKey then returns null
\* with its error set.
C12_FailedStoreThrowsAndLeavesStore ==
    [][\A nodeId \in NodeIds, account \in Accounts :
        /\ (SetItemThrows(stored) /\ IsCall("storeSessionKey", nodeId, account))
            => /\ lastOp'.threw
               /\ stored' = stored
               /\ getSessionKey(stored', nodeId, account, now').result
                    = getSessionKey(stored, nodeId, account, now').result
               /\ getAllSessionKeys(stored') = getAllSessionKeys(stored)
        /\ (SetItemThrows(stored) /\ IsCall("createSessionKey", nodeId, account))
            => /\ lastOp'.key = Null
               /\ hook'.error # Null
               /\ stored' = stored
               /\ getSessionKey(stored', nodeId, account, now').result
                    = getSessionKey(stored, nodeId, account, now').result
               /\ getAllSessionKeys(stored') = getAllSessionKeys(stored)]_vars

\* createSessionKey has returned null with the error of storeSessionKey while
\* the store, which cannot be written, still holds an authorized key
C12_Witness ==
    /\ lastOp.op = "createSessionKey"
    /\ lastOp.key = Null
    /\ hook.error = Some("Failed to store session key in localStorage")
    /\ SetItemThrows(stored)
    /\ \E sessionKey \in getAllSessionKeys(stored) : sessionKey.authorized

\* C13: when localStorage.setItem fails inside deleteSessionKey,
\* markSessionKeyAuthorized or revokeExpiredSessionKeys, the caller observes
\* the failure: the call throws (or, where it returns a boolean, returns
\* false), and revokeSessionKey does not clear its state while the key is
\* still stored.
C13_WriteFailureIsReported ==
    [][\A nodeId \in NodeIds, account \in Accounts :
        /\ (/\ SetItemThrows(stored)
            /\ HasRecord(stored, nodeId, account)
            /\ IsCall("deleteSessionKey", nodeId, account))
            => lastOp'.threw
        /\ (/\ SetItemThrows(stored)
            /\ HasRecord(stored, nodeId, account)
            /\ IsCall("markSessionKeyAuthorized", nodeId, account))
            => lastOp'.threw \/ ~lastOp'.ok
        /\ (/\ SetItemThrows(stored)
            /\ stored.present /\ ExpiredKeys(stored, now) # {}
            /\ lastOp'.op = "revokeExpiredSessionKeys")
            => lastOp'.threw
        /\ (/\ IsCall("revokeSessionKey", nodeId, account)
            /\ hook'.sessionKey = Null)
            => ~HasRecord(stored', nodeId, account)]_vars

\* C14: when the item is missing or is not valid JSON (and can be written),
\* no call throws and each behaves as on an empty store: getSessionKey returns
\* null, markSessionKeyAuthorized false, revokeExpiredSessionKeys 0,
\* getAllSessionKeys the empty list, and storeSessionKey stores the key.
C14_CorruptItemIsEmptyStore ==
    [][(/\ ~stored.present \/ ParseThrows(stored)
        /\ ~SetItemThrows(stored)
        /\ lastOp'.op \in {"getSessionKey", "markSessionKeyAuthorized",
                           "revokeExpiredSessionKeys", "getAllSessionKeys",
                           "storeSessionKey"})
        => /\ ~lastOp'.threw
           /\ lastOp'.key = Null
           /\ lastOp'.ok = FALSE
           /\ lastOp'.count = 0
           /\ lastOp'.all = {}
           /\ lastOp'.op = "storeSessionKey" =>
                /\ HasRecord(stored', lastOp'.nodeId, lastOp'.account)
                /\ getAllSessionKeys(stored')
                    = {RecordOf(stored', lastOp'.nodeId, lastOp'.account)}]_vars

----------------------------------------------------------------------------
(* Properties of validateWorkflowConnectionOrder *)

NodesOf(w) == {w.nodes[i] : i \in DOMAIN w.nodes}

\* the non-placeholder Account nodes, the Transfer, Swap and scope nodes
AccountNodes(w) ==
    {n \in NodesOf(w) : n.type = "erc4337" /\ n.id # "agent-default"}
TransferNodes(w) == {n \in NodesOf(w) : n.type = "transfer"}
SwapNodes(w) == {n \in NodesOf(w) : n.type = "swap"}
ScopeNodes(w) ==
    {n \in NodesOf(w) : n.type \in {"erc20-tokens", "native-token"}}

\* the scope nodes with an edge from the node
ScopesFrom(w, id) == {n \in ScopeNodes(w) : Edge(id, n.id) \in w.edges}

\* n is the first of the nodes S in the node list
IsFirst(w, n, S) ==
    /\ n \in S
    /\ \A i, j \in DOMAIN w.nodes :
        (w.nodes[i] = n /\ w.nodes[j] \in S) => i <= j

Validated == outcome.op = "validateWorkflowConnectionOrder"

\* C15 as stated: for every graph without a Swap node in which a
\* non-placeholder Account node has an edge to a Transfer node and that
\* Transfer has an edge to one or more scope nodes, the validation is valid
\* with pattern 'direct' and tokenCount the number of scope nodes with an edge
\* from that Transfer.
C15_DirectPatternIsValid ==
    Validated =>
        \A a \in AccountNodes(workflow), t \in TransferNodes(workflow) :
            (/\ SwapNodes(workflow) = {}
             /\ Edge(a.id, t.id) \in workflow.edges
             /\ ScopesFrom(workflow, t.id) # {})
            => /\ outcome.validation.valid
               /\ outcome.validation.pattern = "direct"
               /\ outcome.validation.tokenCount
                    = Cardinality(ScopesFrom(workflow, t.id))

\* C15 amended: the same, for the first non-placeholder Account node and the
\* first Transfer node of the node list.
C15_FirstTransferDirectPatternIsValid ==
    Validated =>
        \A a \in AccountNodes(workflow), t \in TransferNodes(workflow) :
            (/\ IsFirst(workflow, a, AccountNodes(workflow))
             /\ IsFirst(workflow, t, TransferNodes(workflow))
             /\ SwapNodes(workflow) = {}
             /\ Edge(a.id, t.id) \in workflow.edges
             /\ ScopesFrom(workflow, t.id) # {})
            => /\ outcome.validation.valid
               /\ outcome.validation.pattern = "direct"
               /\ outcome.validation.tokenCount
                    = Cardinality(ScopesFrom(workflow, t.id))

\* a workflow with two Transfer nodes, the first with one scope node and the
\* second with another, has been found valid with tokenCount 1
C15_Witness ==
    /\ Validated
    /\ outcome.validation.pattern = "direct"
    /\ outcome.validation.tokenCount = 1
    /\ Edge("transfer-2", "native-token-5") \in workflow.edges
    /\ Edge("transfer-6", "erc20-tokens-4") \in workflow.edges

\* C16 as stated: for every graph with no edge from the Account node to the
\* Transfer node, whatever else is missing or present, the validation is
\* invalid and its expected-edge detail is `<accountId> -> <transferId>`.
C16_MissingAccountEdgeIsCited ==
    (/\ Validated
     /\ AccountNodes(workflow) # {}
     /\ TransferNodes(workflow) # {}
     /\ \A a \in AccountNodes(workflow), t \in TransferNodes(workflow) :
            Edge(a.id, t.id) \notin workflow.edges)
    => /\ ~outcome.validation.valid
       /\ \E a \in AccountNodes(workflow), t \in TransferNodes(workflow) :
            outcome.validation.expected = a.id \o " -> " \o t.id

\* C16 amended: for every graph that has a non-placeholder Account node, a
\* Transfer node and at least one scope node, but no edge from the first
\* Account node to the first Transfer node, the validation is invalid with
\* the reason 'ERC-4337 Account must be connected TO Transfer node' and the
\* expected-edge detail `<accountId> -> <transferId>` of these two nodes,
\* whatever Swap nodes and other edges the graph has.
C16_MissingAccountEdgeIsCitedWhenNodesPresent ==
    Validated =>
        \A a \in AccountNodes(workflow), t \in TransferNodes(workflow) :
            (/\ IsFirst(workflow, a, AccountNodes(workflow))
             /\ IsFirst(workflow, t, TransferNodes(workflow))
             /\ ScopeNodes(workflow) # {}
             /\ Edge(a.id, t.id) \notin workflow.edges)
            => /\ ~outcome.validation.valid
               /\ outcome.validation.reason
                    = "ERC-4337 Account must be connected TO Transfer node"
               /\ outcome.validation.expected = a.id \o " -> " \o t.id
               /\ outcome.validation.found = "Connection missing"

\* the missing edge has been cited for a workflow whose Transfer node is
\* connected to the Account node the wrong way round, to a Swap node and to a
\* scope node
C16_Witness ==
    /\ Validated
    /\ outcome.validation.expected = "erc4337-1 -> transfer-2"
    /\ Edge("transfer-2", "erc4337-1") \in workflow.edges
    /\ Edge("transfer-2", "swap-3") \in workflow.edges
    /\ Edge("swap-3", "erc20-tokens-4") \in workflow.edges

\* the expected-edge details that name the Swap node s
NamesSwap(w, s) ==
    {t.id \o " -> " \o s.id : t \in TransferNodes(w)}
        \cup {s.id \o " -> [Token nodes]"}

C18_WithSwapScopesHangOffSwap ==
    (Validated /\ SwapNodes(workflow) # {} /\ outcome.validation.valid)
    => /\ outcome.validation.pattern = "with-swap"
       /\ \E a \in AccountNodes(workflow), t \in TransferNodes(workflow),
             s \in SwapNodes(workflow) :
            /\ Edge(a.id, t.id) \in workflow.edges
            /\ Edge(t.id, s.id) \in workflow.edges
            /\ ScopesFrom(workflow, s.id) # {}
            /\ outcome.validation.tokenCount
                = Cardinality(ScopesFrom(workflow, s.id))

\* a workflow with one scope node on the Swap node and another on the
\* Transfer node has been found valid with tokenCount 1
C18_Witness ==
    /\ Validated
    /\ outcome.validation.pattern = "with-swap"
    /\ outcome.validation.tokenCount = 1
    /\ Edge("swap-3", "erc20-tokens-4") \in workflow.edges
    /\ Edge("transfer-2", "native-token-5") \in workflow.edges

----------------------------------------------------------------------------
(* Properties of the placeholder node 'agent-default' *)

\* the placeholder node of the workflow, if it is on the canvas
Placeholders(w) == {n \in NodesOf(w) : n.id = "agent-default"}

\* C19: the placeholder node 'agent-default' is never the controlling
\* Account.  A validation of a graph whose only erc4337 nodes are placeholders
\* fails with 'ERC-4337 Account node is required', and no validation cites the
\* placeholder as the source of the Account edge; a readiness check returns as
\* smartAccountAddr nothing, the address in the data of the first
\* non-placeholder erc4337 node or the address of that node in smartAccounts,
\* and never the placeholder's address; the auto-create effect of
\* useSmartAccount('agent-default') starts no creation, and no creation is
\* ever in progress or has ever set an address for the placeholder.
C19_PlaceholderIsNeverTheAccount ==
    /\ (Validated /\ AccountNodes(workflow) = {})
        => /\ ~outcome.validation.valid
           /\ outcome.validation.reason = "ERC-4337 Account node is required"
    /\ Validated
        => \A t \in NodesOf(workflow) :
            outcome.validation.expected # "agent-default -> " \o t.id
    /\ outcome.op = "checkWorkflowReadiness"
        => /\ outcome.readiness.smartAccountAddr # smartAccountOf("agent-default")
           /\ outcome.readiness.smartAccountAddr # ""
                => \E a \in AccountNodes(workflow) :
                    /\ IsFirst(workflow, a, AccountNodes(workflow))
                    /\ outcome.readiness.smartAccountAddr
                        \in {a.data.smartAccountAddress, smartAccounts[a.id]}
           /\ dialog.smartAccountAddr # smartAccountOf("agent-default")
    /\ (outcome.op = "useSmartAccount" /\ outcome.nodeId = "agent-default")
        => ~outcome.started
    /\ ~accounts["agent-default"].isCreating
    /\ accounts["agent-default"].address = ""
    /\ smartAccounts["agent-default"] = ""

\* the readiness check has returned the address of erc4337-1 as signer for a
\* workflow whose placeholder node, connected to the Transfer node, carries an
\* address in its data and has a smartAccount_agent-default item stored
C19_Witness ==
    /\ outcome.op = "checkWorkflowReadiness"
    /\ outcome.readiness.ready
    /\ outcome.readiness.smartAccountAddr = "0xSA1"
    /\ \E p \in Placeholders(workflow) :
        p.data.smartAccountAddress = "0xSA0"
    /\ Edge("agent-default", "transfer-2") \in workflow.edges
    /\ accounts["agent-default"].stored = "0xSA0"
    /\ accounts["erc4337-1"].address = "0xSA1"

----------------------------------------------------------------------------
(* Properties of the permission requests *)

\* the scope has both a start and an end time and the end is not after the start
EndsBeforeItStarts(scope) ==
    /\ scope.startTime # "" /\ scope.endTime # ""
    /\ getTime(scope.endTime) <= getTime(scope.startTime)

\* C20: no request is handed to requestExecutionPermissions with a
\* periodDuration <= 0: when the scope has a start and an end time and the end
\* is not after the start, handleGrantPermission of TokenPermissionCard and
\* handleGrantPermissions of WorkflowPermissionManager both send no request.
C20_NoRequestWithoutPositiveDuration ==
    /\ outcome.request # Null => outcome.request[1].periodDuration > 0
    /\ outcome.op = "handleGrantPermission"
        => \A i \in DOMAIN dialog.allTokenNodes :
            (/\ dialog.allTokenNodes[i].id = outcome.nodeId
             /\ EndsBeforeItStarts(dialog.allTokenNodes[i].data))
            => outcome.request = Null
    /\ (/\ outcome.op = "handleGrantPermissions"
        /\ manager.detectedParams # Null
        /\ EndsBeforeItStarts(manager.detectedParams[1]))
        => outcome.request = Null

----------------------------------------------------------------------------
(* Properties of analyzeTransferContext and generateExecutionPlan *)

Analyzed == outcome.op = "analyzeTransferContext"
Planned == outcome.op = "generateExecutionPlan"

\* the scope node the permission parameters are taken from: the first
\* fungible one, else the first native one (a sequence of at most one node)
SelectedScope ==
    IF outcome.context.tokenNode # Null
    THEN outcome.context.tokenNode
    ELSE outcome.context.nativeTokenNode

\* C21: the period duration of the permission parameters is 86400 seconds
\* when the selected scope node lacks its start time or its end time, and
\* the seconds from the start time to the end time when it has both.
C21_PeriodDuration ==
    Analyzed /\ outcome.context.permissionParams # Null =>
        LET data == SelectedScope[1].data
            periodDuration == outcome.context.permissionParams[1].periodDuration
        IN  IF data.startTime = "" \/ data.endTime = ""
            THEN periodDuration = 86400
            ELSE periodDuration
                    = (getTime(data.endTime) - getTime(data.startTime)) \div 1000

C21_Witness ==
    /\ Analyzed
    /\ outcome.context.permissionParams # Null
    /\ SelectedScope[1].data.startTime = "1970-01-01T00:02:00Z"
    /\ SelectedScope[1].data.endTime = "1970-01-02T00:01:00Z"
    /\ outcome.context.permissionParams[1].periodDuration = 86340

\* the fungible scope nodes that have no contract address
Addressless(S) == {n \in S : n.type = "erc20-tokens" /\ n.data.tokenAddress = ""}

\* the token nodes of the dialog whose card the last call was made on
CardNodes ==
    {dialog.allTokenNodes[i] : i \in DOMAIN dialog.allTokenNodes}

NamesContractAddress ==
    outcome.error \in
        {"Token contract address is required for ERC-20 permissions",
         "Token contract address is required for ERC-20 transfers. Please select a token in the ERC-20 Tokens node."}

\* C22: a fungible scope node without a contract address never results in a
\* permission request.  No request for a fungible token is sent without a
\* token address; a grant for such a node sends nothing and, once the signer
\* and the wallet are there, fails with the error that names the token
\* contract address; the readiness check of a workflow whose Transfer leads
\* to such a node reports not ready.  A grant for a native scope never fails
\* with that error.
C22_FungibleNeedsContractAddress ==
    /\ (outcome.request # Null /\ outcome.request[1].type = "erc20-token-periodic")
        => outcome.request[1].tokenAddress # ""
    /\ (/\ outcome.op = "handleGrantPermission"
        /\ \E n \in Addressless(CardNodes) : n.id = outcome.nodeId)
        => (/\ outcome.request = Null
            /\ (dialog.smartAccountAddr # "" /\ wallet.walletClient)
                    => NamesContractAddress)
    /\ (/\ outcome.op = "handleGrantPermissions"
        /\ manager.workflowType = "erc20-transfer"
        /\ manager.detectedParams # Null
        /\ manager.detectedParams[1].tokenAddress = "")
        => (/\ outcome.request = Null
            /\ (manager.smartAccountAddress # "" /\ wallet.walletClient)
                    => NamesContractAddress)
    /\ (/\ outcome.op = "checkWorkflowReadiness"
        /\ \E t \in TransferNodes(workflow) :
                Addressless(ScopesFrom(workflow, t.id)) # {})
        => ~outcome.readiness.ready
    /\ (\/ /\ outcome.op = "handleGrantPermission"
           /\ \E n \in CardNodes :
                n.id = outcome.nodeId /\ n.type = "native-token"
        \/ /\ outcome.op = "handleGrantPermissions"
           /\ manager.workflowType = "eth-transfer")
        => ~NamesContractAddress

C22_Witness ==
    /\ outcome.op = "handleGrantPermissions"
    /\ manager.workflowType = "erc20-transfer"
    /\ manager.detectedParams[1].tokenAddress = ""
    /\ outcome.request = Null
    /\ NamesContractAddress

\* no erc4337 node is reachable from the first Transfer node against the
\* edges: analyzeTransferContext yields no smartAccountAddress
NoReachableAccount ==
    \A i \in DOMAIN workflow.nodes :
        IsFirst(workflow, workflow.nodes[i], TransferNodes(workflow))
            => analyzeTransferContext(workflow.nodes[i].id, workflow.nodes,
                                      edgesOf(workflow)).smartAccountNode = Null

\* the Account node has no address yet, in its data or in the editor's state
AddressNotFilledIn ==
    \A n \in AccountNodes(workflow) :
        IsFirst(workflow, n, AccountNodes(workflow))
            => n.data.smartAccountAddress = "" /\ smartAccounts[n.id] = ""

Successors(w, S) == {e.target : e \in {x \in w.edges : x.source \in S}}

RECURSIVE Closure(_, _)
Closure(w, S) ==
    IF Successors(w, S) \subseteq S THEN S ELSE Closure(w, S \cup Successors(w, S))

Descendants(w, id) == Closure(w, Successors(w, {id}))

\* the ids of the scope nodes the context has collected
CollectedIds ==
    IdsOf(outcome.context.allTokenNodes)
        \cup IdsOf(outcome.context.allNativeTokenNodes)

\* the context of a Transfer node of the canvas has been computed
AnalyzedTransfer ==
    Analyzed /\ outcome.nodeId \in IdsOf(workflow.nodes)

\* C24 as claimed: every scope node reachable from the Transfer node through
\* any number of intermediate nodes is in allTokenNodes or allNativeTokenNodes.
C24_CollectsEveryReachableScope ==
    AnalyzedTransfer =>
        \A n \in ScopeNodes(workflow) :
            n.id \in Descendants(workflow, outcome.nodeId) => n.id \in CollectedIds

\* C24, amended: the scope nodes collected are exactly those with an edge from
\* the Transfer node and those with an edge from the Swap node found among
\* the descendants of the Transfer node; a scope node reachable only
\* through other nodes is not collected.
C24_CollectsScopesOfTransferAndSwap ==
    AnalyzedTransfer =>
        CollectedIds =
            {n.id : n \in ScopesFrom(workflow, outcome.nodeId)}
                \cup UNION {{n.id : n \in ScopesFrom(workflow, swap.id)} :
                                swap \in {x \in SwapNodes(workflow) :
                                    x.id \in Descendants(workflow, outcome.nodeId)}}

\* a native scope collected through the Swap node and a fungible scope behind
\* the other Transfer node that is not collected
C24_Witness ==
    /\ AnalyzedTransfer
    /\ outcome.nodeId = "transfer-2"
    /\ "transfer-6" \in Descendants(workflow, "transfer-2")
    /\ "erc20-tokens-4" \in Descendants(workflow, "transfer-2")
    /\ Edge("transfer-2", "native-token-5") \notin workflow.edges
    /\ CollectedIds = {"native-token-5"}

\* the scope nodes collected, fungible first
AllCollected ==
    outcome.context.allTokenNodes \o outcome.context.allNativeTokenNodes

\* C25: no node id occurs more than once across allTokenNodes and
\* allNativeTokenNodes, whatever the graph: also when a scope node has an edge
\* from the Transfer node and one from the Swap node, and when edges are
\* duplicated.
C25_CollectedOnce ==
    Analyzed =>
        \A i, j \in DOMAIN AllCollected :
            AllCollected[i].id = AllCollected[j].id => i = j

\* a scope node connected to the Transfer node and to the Swap node by
\* duplicated edges, collected once
C25_Witness ==
    /\ Analyzed
    /\ outcome.nodeId = "transfer-2"
    /\ {Edge("transfer-2", "swap-3"), Edge("transfer-2", "erc20-tokens-4"),
        Edge("swap-3", "erc20-tokens-4")} \subseteq workflow.edges
    /\ Len(outcome.edges) = 2 * Cardinality(workflow.edges)
    /\ Len(AllCollected) = 1
    /\ AllCollected[1].id = "erc20-tokens-4"

\* the ids from which a node is reachable by following one or more edges
\* forward
Ancestors(w, id) == {n \in IdsOf(w.nodes) : id \in Descendants(w, n)}

\* a node of type erc4337 is among the ancestors of the node
HasAccountAncestor(w, id) ==
    \E n \in NodesOf(w) : n.type = "erc4337" /\ n.id \in Ancestors(w, id)

\* the scope nodes with an edge from the node or from a Swap node among its
\* descendants
FoundScopes(w, id) ==
    ScopesFrom(w, id)
        \cup UNION {ScopesFrom(w, swap.id) :
                        swap \in {x \in SwapNodes(w) : x.id \in Descendants(w, id)}}

Fungible(S) == {n \in S : n.type = "erc20-tokens"}
Native(S) == {n \in S : n.type = "native-token"}

\* the operation type the claim gives to a Transfer node of the canvas
ClaimedOperationType(w, id) ==
    IF HasAccountAncestor(w, id) /\ Fungible(FoundScopes(w, id)) # {}
    THEN "erc20-transfer"
    ELSE IF HasAccountAncestor(w, id) THEN "eth-transfer"
    ELSE "unknown"

\* the steps of the plan for the index-th (from 0) of the Transfer nodes
StepsOf(index) ==
    {i \in DOMAIN outcome.plan.execution_steps :
        outcome.plan.execution_steps[i].step = index + 1}

\* C26: the operation type is 'erc20-transfer' exactly when an Account
\* ancestor (a node of type erc4337 from which the Transfer node is
\* reachable) and at least one fungible scope node are found, 'eth-transfer'
\* when an Account ancestor is found with native scope nodes only or with
\* none, and 'unknown' otherwise: without an Account ancestor, or for an id
\* that is not in the graph.  A Transfer node with an Account ancestor and
\* both fungible and native scope nodes yields exactly one step of the plan,
\* an erc20_transfer.
C26_OperationType ==
    /\ Analyzed =>
        outcome.context.operationType =
            IF outcome.nodeId \in IdsOf(workflow.nodes)
            THEN ClaimedOperationType(workflow, outcome.nodeId)
            ELSE "unknown"
    /\ Planned =>
        \A index \in {0, 1} :
            LET transferNodes ==
                    SelectSeq(workflow.nodes, LAMBDA n : n.type = "transfer")
            IN  (/\ index < Len(transferNodes)
                 /\ HasAccountAncestor(workflow, transferNodes[index + 1].id)
                 /\ Fungible(FoundScopes(workflow, transferNodes[index + 1].id)) # {}
                 /\ Native(FoundScopes(workflow, transferNodes[index + 1].id)) # {})
                => /\ Cardinality(StepsOf(index)) = 1
                   /\ \A i \in StepsOf(index) :
                        outcome.plan.execution_steps[i].operation = "erc20_transfer"

\* the plan of Account -> Transfer -> Swap -> fungible and native scope nodes
C26_Witness ==
    /\ Planned
    /\ HasAccountAncestor(workflow, "transfer-2")
    /\ Edge("transfer-2", "swap-3") \in workflow.edges
    /\ Fungible(ScopesFrom(workflow, "swap-3")) # {}
    /\ Native(ScopesFrom(workflow, "swap-3")) # {}
    /\ ScopesFrom(workflow, "transfer-2") = {}
    /\ outcome.plan.total_steps = 1
    /\ outcome.plan.execution_steps[1].operation = "erc20_transfer"

\* the window and the limits of the permission parameters are those of the
\* scope node
CopiedFrom(params, data) ==
    /\ params.startTime = data.startTime
    /\ params.endTime = data.endTime
    /\ params.amountLimit = data.amountLimit
    /\ params.periodAmount = data.amount

\* C27: the permission parameters are built from the first scope node
\* collected, a fungible one before a native one: from a fungible node its
\* token address, its symbol and its decimals, 18 when it has none; from a
\* native node 18 decimals and the symbol 'ETH'.  They are undefined exactly
\* when no scope node was collected.
C27_PermissionParams ==
    Analyzed =>
        /\ outcome.context.permissionParams = Null <=> AllCollected = <<>>
        /\ outcome.context.allTokenNodes # <<>> =>
            LET data == outcome.context.allTokenNodes[1].data
                params == outcome.context.permissionParams[1]
            IN  /\ CopiedFrom(params, data)
                /\ params.tokenAddress = data.tokenAddress
                /\ params.symbol = data.symbol
                /\ params.decimals = IF data.decimals = 0 THEN 18 ELSE data.decimals
        /\ (outcome.context.allTokenNodes = <<>>
                /\ outcome.context.allNativeTokenNodes # <<>>) =>
            LET data == outcome.context.allNativeTokenNodes[1].data
                params == outcome.context.permissionParams[1]
            IN  /\ CopiedFrom(params, data)
                /\ params.decimals = 18
                /\ params.symbol = "ETH"

\* a fungible node without decimals collected together with a native node
\* that has another window
C27_Witness ==
    /\ Analyzed
    /\ outcome.context.allTokenNodes # <<>>
    /\ outcome.context.allNativeTokenNodes # <<>>
    /\ outcome.context.allTokenNodes[1].data.decimals = 0
    /\ outcome.context.allTokenNodes[1].data.symbol = "DAI"
    /\ outcome.context.allTokenNodes[1].data.startTime
        # outcome.context.allNativeTokenNodes[1].data.startTime
    /\ outcome.context.permissionParams[1].decimals = 18
    /\ outcome.context.permissionParams[1].symbol = "DAI"
    /\ outcome.context.permissionParams[1].tokenAddress = "0xToken"

\* no node has been expanded twice in the traversal that is running
ExpandedOnce ==
    \A i, j \in DOMAIN traversal.expanded :
        traversal.expanded[i] = traversal.expanded[j] => i = j

\* C28: analyzeTransferContext, in its traversal of the ancestors and in its
\* traversal of the descendants, and generateExecutionPlan terminate on every
\* graph, also on graphs with cycles, self-loops and duplicated edges: no
\* traversal expands a node twice, and every call that has started returns.
C28_TraversalsTerminate ==
    /\ []ExpandedOnce
    /\ (traversal.phase # "idle") ~> (traversal.phase = "done")

\* generateExecutionPlan has returned for a graph with a self-loop, a cycle
\* and every edge duplicated
C28_Witness ==
    /\ traversal.phase = "done"
    /\ traversal.planning
    /\ {Edge("erc4337-1", "transfer-2"), Edge("transfer-2", "transfer-2"),
        Edge("transfer-2", "swap-3"), Edge("swap-3", "transfer-2")}
            \subseteq workflow.edges
    /\ Len(traversal.edges) = 2 * Cardinality(workflow.edges)
    /\ outcome.plan.total_steps >= 1

\* the Transfer nodes in the order of the node list
PlannedTransfers == SelectSeq(workflow.nodes, LAMBDA n : n.type = "transfer")

\* the operation type of the context of the index-th (from 0) Transfer node
PlannedType(index) ==
    analyzeTransferContext(PlannedTransfers[index + 1].id, workflow.nodes,
                           outcome.edges).operationType

\* C29: generateExecutionPlan emits exactly one step for each Transfer node
\* whose context is not 'unknown' and none for the others; the steps are in
\* the order of the node list and their numbers increase strictly;
\* total_steps is the number of steps and has_executable_steps is true
\* exactly when total_steps > 0.
C29_OneStepPerKnownTransfer ==
    Planned =>
        LET steps == outcome.plan.execution_steps
        IN  /\ \A index \in 0..(Len(PlannedTransfers) - 1) :
                Cardinality(StepsOf(index)) =
                    IF PlannedType(index) # "unknown" THEN 1 ELSE 0
            /\ \A i \in DOMAIN steps : steps[i].step \in 1..Len(PlannedTransfers)
            /\ \A i, j \in DOMAIN steps : i < j => steps[i].step < steps[j].step
            /\ outcome.plan.total_steps = Len(steps)
            /\ outcome.plan.has_executable_steps <=> outcome.plan.total_steps > 0

\* a plan of two steps, and none for a Transfer node without an Account
C29_Witness ==
    /\ Planned
    /\ Len(PlannedTransfers) = 2
    /\ outcome.plan.total_steps = 2
    /\ outcome.plan.execution_steps[1].step = 1
    /\ outcome.plan.execution_steps[2].step = 2
    /\ outcome.plan.has_executable_steps

\* C30: a Transfer node whose context lacks a required field is skipped:
\* every step of the plan has a smart account address, a recipient and an
\* amount, and every erc20_transfer step a token contract address.
C30_EveryStepHasItsFields ==
    Planned =>
        \A i \in DOMAIN outcome.plan.execution_steps :
            LET step == outcome.plan.execution_steps[i]
            IN  /\ step.smart_account # ""
                /\ step.recipient # ""
                /\ step.amount # ""
                /\ step.operation = "erc20_transfer" => step.token_address # ""


----------------------------------------------------------------------------
(* Properties of the PermissionProvider *)

\* the spellings of one key: they differ in the case of their letters only
Spellings ==
    {{"0xSA1", "0xsa1"},
     {"0xSA1-erc20-tokens-4", "0xsa1-erc20-tokens-4"},
     {"0xSA1-native-token-5", "0xsa1-native-token-5"}}

SameLetters(a, b) == \E spelling \in Spellings : a \in spelling /\ b \in spelling

\* what the lookups answer for a key saved with this value
Answer(grant) == IF grant \in Grants THEN Some(grant) ELSE Null

Saved == outcome.op = "savePermission"
Removed == outcome.op = "removePermission"
LookedUp ==
    outcome.op \in {"fetchPermission", "hasPermissionForAccount",
                    "getPermissionForAccount"}

\* C31: the keys of the store are case-insensitive: after savePermission with
\* one spelling of a key, fetchPermission, getPermissionForAccount and
\* hasPermissionForAccount with any spelling of it find the saved permission;
\* after removePermission with one spelling none of them finds a permission
\* with any spelling; and a lookup answers the same for every spelling
C31_KeysAreCaseInsensitive ==
    \A other \in AccountKeys :
        SameLetters(outcome.key, other) =>
            LET map == permissionsOf(outcome.provider)
            IN  /\ Saved =>
                    (/\ fetchPermission(map, other) = Answer(outcome.grant)
                     /\ getPermissionForAccount(map, other) = Answer(outcome.grant)
                     /\ hasPermissionForAccount(map, other)
                            = (outcome.grant \in Grants))
                /\ Removed =>
                    (/\ fetchPermission(map, other) = Null
                     /\ getPermissionForAccount(map, other) = Null
                     /\ ~hasPermissionForAccount(map, other))
                /\ (outcome.op \in {"fetchPermission", "getPermissionForAccount"}) =>
                    (/\ outcome.found = fetchPermission(map, other)
                     /\ outcome.found = getPermissionForAccount(map, other))
                /\ (outcome.op = "hasPermissionForAccount") =>
                    (outcome.granted = hasPermissionForAccount(map, other))

\* a permission saved under the displayed address is found under the
\* lower-case address
C31_Witness ==
    /\ Saved
    /\ outcome.key = "0xSA1"
    /\ outcome.grant = "grant-2"
    /\ fetchPermission(permissionsOf(outcome.provider), "0xsa1") = Some("grant-2")
    /\ hasPermissionForAccount(permissionsOf(outcome.provider), "0xsa1")


\* the step is a savePermission or a removePermission of provider p with key
Mutates(p, key) ==
    /\ outcome'.op \in {"savePermission", "removePermission"}
    /\ outcome'.provider = p
    /\ outcome'.key = key

\* C32: within one provider a save to a key replaces whatever was under it
\* (the last write wins), a save or a remove on one key leaves the record
\* under every key with other letters as it was, and
\* hasPermissionForAccount(k) is true exactly when getPermissionForAccount(k)
\* is not null
C32_LastWriteWins ==
    /\ [][\A p \in Providers, key \in AccountKeys :
            Mutates(p, key) =>
                /\ (outcome'.op = "savePermission") =>
                    (getPermissionForAccount(permissionsOf(p)', key)
                        = Answer(outcome'.grant))
                /\ \A other \in AccountKeys :
                    ~SameLetters(key, other) =>
                        (/\ permissionsOf(p)'[other] = permissionsOf(p)[other]
                         /\ getPermissionForAccount(permissionsOf(p)', other)
                                = getPermissionForAccount(permissionsOf(p), other))]_vars
    /\ [](\A p \in Providers, key \in AccountKeys :
            hasPermissionForAccount(permissionsOf(p), key)
                <=> (getPermissionForAccount(permissionsOf(p), key) # Null))

\* a second permission was saved over the first of one key while another key
\* of the provider holds its own
C32_Witness ==
    /\ Saved
    /\ outcome.key = "0xSA1"
    /\ outcome.grant = "grant-2"
    /\ permissions.item # Null
    /\ permissions.item[1]["0xsa1"] = "grant-2"
    /\ getPermissionForAccount(permissionsOf(outcome.provider),
                               "0xSA1-erc20-tokens-4") = Some("grant-1")


\* the item holds what the mutation an outcome records did to its key
Reflects(item, done) ==
    /\ item # Null
    /\ fetchPermission(item[1], done.key)
        = IF done.op = "savePermission" THEN Answer(done.grant) ELSE Null

\* C33: no update is lost: when the two providers are mounted and one saves or
\* removes a key after the other saved or removed a key with other letters,
\* the item erc4337_permissions reflects both mutations
C33_NoUpdateLost ==
    [][\A p \in Providers, key \in AccountKeys :
        (/\ Mutates(p, key)
         /\ Saved \/ Removed
         /\ outcome.provider # p
         /\ ~SameLetters(outcome.key, key)
         /\ \A q \in Providers : /\ permissions.providers[q].mounted
                                 /\ permissions'.providers[q].mounted)
        => (/\ Reflects(permissions'.item, outcome')
            /\ Reflects(permissions'.item, outcome))]_vars


\* the step is the answer of the wallet to a request for permissions
Answered == outcome'.op = "requestExecutionPermissions"

\* C34: no speculative state is committed: the provider's permissions and the
\* item erc4337_permissions change only when the wallet answered a request
\* with a grant, and when the request was rejected or the answer held no
\* grant they are as they were before and the key is not reported as granted
C34_NoSpeculativeState ==
    [][/\ (permissions' # permissions) =>
            (Answered /\ outcome'.grant \in Grants)
       /\ (Answered /\ outcome'.grant \notin Grants) =>
            (/\ permissions' = permissions
             /\ \A p \in Providers :
                    /\ ~hasPermissionForAccount(permissionsOf(p)', outcome'.key)
                    /\ hasPermission(permissionsOf(p)')
                            = hasPermission(permissionsOf(p)))]_vars


----------------------------------------------------------------------------
(* Properties of the WorkflowPermissionManager and of useSmartAccount *)

Edited ==
    outcome.op \in {"onConnect", "onEdgesChange", "onNodesChange", "updateNodeData"}

\* C35: the execution context is never cached across an edit of the graph:
\* after any edit that leaves a Transfer on the canvas, the parameters and
\* the operation type the WorkflowPermissionManager uses for its next request
\* are those analyzeTransferContext derives from the current graph
C35_ContextFollowsGraph ==
    (Edited /\ TransferNodes(workflow) # {}) =>
        LET transfer ==
                SelectSeq(workflow.nodes, LAMBDA n : n.type = "transfer")[1]
            context ==
                analyzeTransferContext(transfer.id, workflow.nodes,
                                       edgesOf(workflow))
        IN  /\ manager.detectedParams = context.permissionParams
            /\ manager.workflowType = context.operationType


\* C36: at most one call of createSmartAccount for a node is outstanding:
\* while one is in flight (isCreating is true) neither the auto-create effect
\* nor a call of createSmartAccount or refreshAccount starts a second, and
\* none is started when an address is stored for the node
C36_OneCreationOutstanding ==
    [][\A nodeId \in AccountIds :
        (accounts'[nodeId].calls > accounts[nodeId].calls) =>
            (/\ ~accounts[nodeId].isCreating
             /\ accounts[nodeId].calls = 0
             /\ accounts[nodeId].stored = "")]_vars


----------------------------------------------------------------------------
(* Properties of the validator and the analyzer applied to one graph *)

Compared == outcome.op = "validateAndAnalyze"

\* the targets of the edges of the array that leave a node, and the place of
\* the first of them that leads to a target
ChildrenOf(edges, id) ==
    {edges[i].target : i \in {j \in DOMAIN edges : edges[j].source = id}}

FirstDrawn(edges, id, target) ==
    CHOOSE i \in DOMAIN edges :
        /\ edges[i] = Edge(id, target)
        /\ \A j \in 1..(i - 1) : edges[j] # Edge(id, target)

\* a list of scope nodes holds the children of the Transfer node first, in the
\* order of their edges, and then the other children of the Swap node, in the
\* order of theirs, each node once
DirectThenSwap(list, edges, transferId) ==
    /\ \A i \in DOMAIN list :
        list[i].id \in ChildrenOf(edges, transferId)
                        \cup ChildrenOf(edges, "swap-3")
    /\ \A i, j \in DOMAIN list :
        (i < j) =>
            LET a == list[i].id
                b == list[j].id
                direct == ChildrenOf(edges, transferId)
            IN  /\ a # b
                /\ (b \in direct) =>
                    (/\ a \in direct
                     /\ FirstDrawn(edges, transferId, a)
                            < FirstDrawn(edges, transferId, b))
                /\ (a \notin direct /\ b \notin direct) =>
                    (FirstDrawn(edges, "swap-3", a)
                        < FirstDrawn(edges, "swap-3", b))

C38_SameControllingAccount ==
    (Compared /\ outcome.validation.valid) =>
        /\ outcome.context.smartAccountNode # Null
        /\ outcome.context.smartAccountNode[1].id # "agent-default"
        /\ IsFirst(workflow, outcome.context.smartAccountNode[1],
                   AccountNodes(workflow))

\* C39: the validator and the analyzer agree on the scope nodes: whenever
\* validation succeeds, its tokenCount is the number of nodes in allTokenNodes
\* and allNativeTokenNodes of the context of the validated Transfer
C39_SameScopeNodes ==
    (Compared /\ outcome.validation.valid) =>
        (outcome.validation.tokenCount
            = Len(outcome.context.allTokenNodes)
                + Len(outcome.context.allNativeTokenNodes))


----------------------------------------------------------------------------
(* Properties of the time window of a permission request *)

\* C40: every permission request that is handed to requestExecutionPermissions
\* describes one time window: its expiry is its startTime plus its
\* periodDuration, in whole unix seconds, in TokenPermissionCard and in
\* WorkflowPermissionManager, also when the start or the end time of the scope
\* is unset and the defaults are applied
C40_OneTimeWindow ==
    (outcome.op \in {"handleGrantPermission", "handleGrantPermissions"}
        /\ outcome.request # Null)
    => (outcome.request[1].expiry
            = outcome.request[1].startTime + outcome.request[1].periodDuration)

====
